---- MODULE Spec2Model ----
(***************************************************************************)
(* Verification model of acquiesce (jason136/acquiesce).                   *)
(*                                                                         *)
(* Part 1: the rule table (struct Rules of src/src/render.rs), the         *)
(*         de-duplicating interner behind the grammar compiler.            *)
(* Part 2: Acquiesce::render, the envelope compiler, and Acquiesce::parser.*)
(*                                                                         *)
(* Part 3: the partial-JSON consumer (src/src/utils/partial_json.rs).      *)
(* Part 4: the pure functions of the library: infer_default and the        *)
(*         literal lists (src/src/lib.rs), JsonFormatter (src/src/json.rs),*)
(*         primitive injection, the repetition operators, and the literal  *)
(*         consumer (src/src/utils/partial_literal.rs).                    *)
(*                                                                         *)
(* Four specifications:                                                    *)
(*   SpecRules - one Rules value driven by arbitrary insert_* calls.       *)
(*   Spec      - an envelope (chosen at construction) on which render and  *)
(*               parser are called with arbitrary inputs.                  *)
(*   SpecJson  - one partial-JSON consumer fed an input character by       *)
(*               character.                                                *)
(*   SpecLib   - one call of a pure function on an input drawn from a      *)
(*               bounded set; result holds the input and what it returned. *)
(***************************************************************************)
EXTENDS Integers, Sequences, FiniteSets, TLC

VARIABLES
    rules,      \* SpecRules: Rules.rules, HashMap<RuleKey, String>
    syntax,     \* SpecRules: Rules.syntax
    last,       \* SpecRules: the last insert call and the key it returned
    config,     \* Spec: the envelope description (self of render / parser)
    pc,         \* where the caller is: "idle", "returned", "aborted", ...
    result,     \* Spec: what the last call returned
    consumer    \* SpecJson: the input, the PartialJson state, the results

vars == <<rules, syntax, last, config, pc, result, consumer>>

(***************************************************************************)
(* Bounds of the model.                                                    *)
(***************************************************************************)
MaxRules == 3
MaxTools == 2

(***************************************************************************)
(* Small helpers on sequences and strings.                                 *)
(***************************************************************************)
NoKey == <<"", 0>>

RECURSIVE Join(_, _)
Join(strs, sep) ==
    IF strs = <<>> THEN ""
    ELSE IF Len(strs) = 1 THEN strs[1]
    ELSE strs[1] \o sep \o Join(Tail(strs), sep)

Range(s) == { s[i] : i \in 1..Len(s) }

(***************************************************************************)
(* RuleKey(String, usize) and its Display: name followed by the digits.    *)
(***************************************************************************)
RuleKey(name, count) == <<name, count>>

Display(rule_key) == rule_key[1] \o ToString(rule_key[2])

(***************************************************************************)
(* A rule body.  The program stores only the text; kind, refs, lo and hi   *)
(* record how the text was built (which symbols it references and with     *)
(* which repetition), so that the grammar can be analysed.  insert_rule    *)
(* compares the text alone, as the program does.                           *)
(*   kind: "sequence" | "alternative" | "repetition" | "literal" |         *)
(*         "token" | "regex" | "json" | "raw"                              *)
(*   hi = -1 stands for an absent upper bound (None).                      *)
(***************************************************************************)
Body(text, kind, refs, lo, hi) ==
    [text |-> text, kind |-> kind, refs |-> refs, lo |-> lo, hi |-> hi]

Terminal(text, kind) == Body(text, kind, <<>>, 1, 1)

Raw(text, refs) == Body(text, "raw", refs, 1, 1)

HasName(r, name) == \E k \in DOMAIN r : k[1] = name

Put(r, key, body) ==
    [k \in DOMAIN r \cup {key} |-> IF k = key THEN body ELSE r[k]]

EmptyRules == [k \in {} |-> Terminal("", "raw")]

(***************************************************************************)
(* The compilation state, passed as &mut self / &mut Rules from call to    *)
(* call: Rules.rules and Rules.syntax, and with them what the calls hand   *)
(* to one another:                                                         *)
(*   st   - "ok", or why the compilation stopped: the RenderError raised,  *)
(*          "overflow" for an unbounded recursion, "no_grammar" when       *)
(*          ChatToolChoice::render returned None.  The ? operator returns  *)
(*          at the first error, so no call acts on a state that is not     *)
(*          "ok";                                                          *)
(*   key  - the RuleKey returned by the last call;                         *)
(*   acc  - the key vectors under construction (the Vec<RuleKey> locals    *)
(*          named acc, parts, kv_rules), innermost last;                   *)
(*   stack - the calls of insert_primitive_with_deps in progress;          *)
(*   tools_rule, text_rule, call_rule, some, allow_content - the locals of *)
(*          Acquiesce::render and the pair ChatToolChoice::render returns. *)
(***************************************************************************)
Rules_new(syn) ==
    [rules |-> EmptyRules, syntax |-> syn, st |-> "ok", key |-> NoKey,
     acc |-> <<>>, stack |-> <<>>, tools_rule |-> NoKey, text_rule |-> NoKey,
     call_rule |-> NoKey, some |-> FALSE, allow_content |-> FALSE]

\* Err(e)?: the compilation stops with e.
Err(self, e) == IF self.st = "ok" THEN [self EXCEPT !.st = e] ELSE self

\* Ok(key) of a call that leaves the table as it is.
Returns(self, key) == IF self.st = "ok" THEN [self EXCEPT !.key = key] ELSE self

\* let <local> = <the key the last call returned>
Bind(self, local) == [self EXCEPT ![local] = self.key]

\* let mut acc = Vec::new()
Open(self) == [self EXCEPT !.acc = Append(@, <<>>)]

\* acc.push(key)
PushKey(self, key) == [self EXCEPT !.acc[Len(self.acc)] = Append(@, key)]

\* acc.push(<the key the last call returned>)
Push(self) == PushKey(self, self.key)

\* The vector under construction, and the one begun before it.
Top(self) == self.acc[Len(self.acc)]

Below(self) == self.acc[Len(self.acc) - 1]

\* The vector goes out of scope.
Pop(self) == [self EXCEPT !.acc = SubSeq(@, 1, Len(@) - 1)]

(***************************************************************************)
(* Rules::insert_rule: walk (key,0), (key,1), ... ; return the first key   *)
(* whose body equals value, else insert at the first unoccupied key.       *)
(***************************************************************************)
RECURSIVE insert_rule_from(_, _, _, _)
insert_rule_from(self, key, body, count) ==
    IF RuleKey(key, count) \in DOMAIN self.rules
    THEN IF self.rules[RuleKey(key, count)].text = body.text
         THEN [self EXCEPT !.key = RuleKey(key, count)]
         ELSE insert_rule_from(self, key, body, count + 1)
    ELSE [self EXCEPT !.rules = Put(@, RuleKey(key, count), body),
                      !.key = RuleKey(key, count)]

\* Faulty variants of insert_rule: one stores at disambiguator 0 whatever is
\* there, one never compares bodies and always allocates.
insert_rule_overwriting(self, key, body) ==
    [self EXCEPT !.rules = Put(@, RuleKey(key, 0), body), !.key = RuleKey(key, 0)]

RECURSIVE first_unused(_, _, _)
first_unused(r, key, count) ==
    IF RuleKey(key, count) \in DOMAIN r THEN first_unused(r, key, count + 1)
    ELSE RuleKey(key, count)

insert_rule_allocating(self, key, body) ==
    [self EXCEPT !.rules = Put(@, first_unused(self.rules, key, 0), body),
                 !.key = first_unused(self.rules, key, 0)]

insert_rule(self, key, body) ==
    IF self.st # "ok" THEN self ELSE insert_rule_from(self, key, body, 0)

DisplayAll(keys) == [i \in 1..Len(keys) |-> Display(keys[i])]

insert_sequence(self, key, sequence_keys) ==
    insert_rule(self, key,
        Body(Join(DisplayAll(sequence_keys), " "), "sequence",
             DisplayAll(sequence_keys), 1, 1))

insert_alternative(self, key, alternative_keys) ==
    insert_rule(self, key,
        Body(Join(DisplayAll(alternative_keys), " | "), "alternative",
             DisplayAll(alternative_keys), 1, 1))

\* The operator text of a repetition, by the match arms of insert_repetition.
RepetitionText(sym, start, end) ==
    IF start = 0 /\ end = -1 THEN sym \o "*"
    ELSE IF start = 1 /\ end = -1 THEN sym \o "+"
    ELSE IF start = 0 /\ end = 1 THEN sym \o "?"
    ELSE IF end # -1 /\ start = end THEN sym \o "{" \o ToString(start) \o "}"
    ELSE IF end = -1 THEN sym \o "{" \o ToString(start) \o ",}"
    ELSE sym \o "{" \o ToString(start) \o "," \o ToString(end) \o "}"

insert_repetition(self, key, repetition_key, start, end) ==
    insert_rule(self, key,
        Body(RepetitionText(Display(repetition_key), start, end), "repetition",
             <<Display(repetition_key)>>, start, end))

\* insert_sequence(key, acc) / insert_alternative(key, acc) on the vector
\* under construction, which ends there.
sequence_of(self, key) == insert_sequence(Pop(self), key, Top(self))

alternative_of(self, key) == insert_alternative(Pop(self), key, Top(self))

(***************************************************************************)
(* Lexeme primitives (src/src/render/lark.rs, src/src/render/gbnf.rs).     *)
(* The literal is wrapped in quotes as it is, the regex in slashes.        *)
(***************************************************************************)
Quote == "\""

lark_string_literal(literal) == Quote \o literal \o Quote

lark_regex(regex) == "/" \o regex \o "/"

lark_json_schema(json_text) == "%json " \o json_text

\* lark_token_literal is imported by render.rs but is not part of the
\* sources; section 4.3 of the specification: "Token -> raw token name".
lark_token_literal(token) == token

gbnf_string_literal(literal) == Quote \o literal \o Quote

gbnf_regex(regex) == "/" \o regex \o "/"

LARK_TEXT == "TEXT: /[^{](.|\\n)*/"

GBNF_TEXT == "/[^{](.|\\n)*/"

(***************************************************************************)
(* Lexeme: Text(String) | Token(String) | Regex{pattern} | JsonSchema(v).  *)
(* A JsonSchema lexeme carries the schema's JSON text and the Schema AST   *)
(* that SchemaCompiler::compile yields for it.                             *)
(***************************************************************************)
LexText(text) == [k |-> "text", v |-> text]
LexToken(token) == [k |-> "token", v |-> token]
LexRegex(pattern) == [k |-> "regex", v |-> pattern]
LexJsonSchema(js) == [k |-> "json", v |-> js.json, js |-> js]

(***************************************************************************)
(* Schema AST, as matched by Rules::insert_schema.                         *)
(* Absent options: format/pattern "" and max -1.                           *)
(***************************************************************************)
SAny == [t |-> "Any"]
SUnsatisfiable == [t |-> "Unsatisfiable"]
SNull == [t |-> "Null"]
SBoolean(b) == [t |-> "Boolean", b |-> b]          \* b: "none"|"true"|"false"
SNumber(integer) == [t |-> "Number", integer |-> integer]
SString(format, pattern, min_length, max_length) ==
    [t |-> "String", format |-> format, pattern |-> pattern,
     min_length |-> min_length, max_length |-> max_length]
SArray(prefix_items, items, min_items, max_items) ==
    [t |-> "Array", prefix_items |-> prefix_items, items |-> items,
     min_items |-> min_items, max_items |-> max_items]
SObject(properties, required, additional) ==
    [t |-> "Object", properties |-> properties, required |-> required,
     additional |-> additional]
SAnyOf(alts) == [t |-> "AnyOf", alts |-> alts]
SConst(json_str) == [t |-> "Const", val |-> json_str]
SEnum(vals) == [t |-> "Enum", vals |-> vals]
SRef(ref_name) == [t |-> "Ref", ref |-> ref_name]

(***************************************************************************)
(* PRIMITIVE_RULES and FORMAT_RULES: (name, content, deps).  refs lists    *)
(* the rule symbols the content mentions.                                  *)
(***************************************************************************)
Prim(content, refs, deps) == [content |-> content, refs |-> refs, deps |-> deps]

PrimitiveNames ==
    {"space", "boolean", "decimal-part", "integral-part", "number", "integer",
     "value", "object", "array", "char", "string", "null"}

lookup_primitive_rule(name) ==
    CASE name = "space" ->
           Prim("| \" \" | \"\\n\"{1,2} [ \\t]{0,20}", <<>>, <<>>)
      [] name = "boolean" ->
           Prim("(\"true\" | \"false\") space", <<"space">>, <<>>)
      [] name = "decimal-part" -> Prim("[0-9]{1,16}", <<>>, <<>>)
      [] name = "integral-part" -> Prim("[0] | [1-9] [0-9]{0,15}", <<>>, <<>>)
      [] name = "number" ->
           Prim("(\"-\"? integral-part) (\".\" decimal-part)? ([eE] [-+]? integral-part)? space",
                <<"integral-part", "decimal-part", "space">>,
                <<"integral-part", "decimal-part">>)
      [] name = "integer" ->
           Prim("(\"-\"? integral-part) space",
                <<"integral-part", "space">>, <<"integral-part">>)
      [] name = "value" ->
           Prim("object | array | string | number | boolean | null",
                <<"object", "array", "string", "number", "boolean", "null">>,
                <<"object", "array", "string", "number", "boolean", "null">>)
      [] name = "object" ->
           Prim("\"{\" space ( string \":\" space value (\",\" space string \":\" space value)* )? \"}\" space",
                <<"space", "string", "value">>, <<"string", "value">>)
      [] name = "array" ->
           Prim("\"[\" space ( value (\",\" space value)* )? \"]\" space",
                <<"space", "value">>, <<"value">>)
      [] name = "char" ->
           Prim("[^\"\\\\\\x7F\\x00-\\x1F] | [\\\\] ([\"\\\\bfnrt] | \"u\" [0-9a-fA-F]{4})",
                <<>>, <<>>)
      [] name = "string" ->
           Prim("\"\\\"\" char* \"\\\"\" space", <<"char", "space">>, <<"char">>)
      [] name = "null" -> Prim("\"null\" space", <<"space">>, <<>>)

FormatNames ==
    {"date", "time", "date-time", "date-string", "time-string", "date-time-string"}

lookup_format_rule(name) ==
    CASE name = "date" ->
           Prim("[0-9]{4} \"-\" ( \"0\" [1-9] | \"1\" [0-2] ) \"-\" ( \"0\" [1-9] | [1-2] [0-9] | \"3\" [0-1] )",
                <<>>, <<>>)
      [] name = "time" ->
           Prim("([01] [0-9] | \"2\" [0-3]) \":\" [0-5] [0-9] \":\" [0-5] [0-9] ( \".\" [0-9]{3} )? ( \"Z\" | ( \"+\" | \"-\" ) ( [01] [0-9] | \"2\" [0-3] ) \":\" [0-5] [0-9] )",
                <<>>, <<>>)
      [] name = "date-time" ->
           Prim("date \"T\" time", <<"date", "time">>, <<"date", "time">>)
      [] name = "date-string" ->
           Prim("\"\\\"\" date \"\\\"\" space", <<"date", "space">>, <<"date">>)
      [] name = "time-string" ->
           Prim("\"\\\"\" time \"\\\"\" space", <<"time", "space">>, <<"time">>)
      [] name = "date-time-string" ->
           Prim("\"\\\"\" date-time \"\\\"\" space",
                <<"date-time", "space">>, <<"date-time">>)

(***************************************************************************)
(* Rules::insert_primitive / insert_primitive_with_deps.                   *)
(* The recursion of the program is unbounded when a primitive is reached   *)
(* again, below itself, on an unchanged set of rule names (the call is a   *)
(* function of the name and of the names present): the status is then      *)
(* "overflow", the call stack being exhausted.  self.stack holds the       *)
(* frames <<name, keys present>> of the calls in progress.                 *)
(***************************************************************************)
RECURSIVE insert_primitive(_, _)
RECURSIVE insert_deps(_, _)
RECURSIVE insert_primitive_with_deps(_, _, _)

insert_primitive(self, name) ==
    IF self.st # "ok" THEN self
    ELSE IF name \in PrimitiveNames
    THEN insert_primitive_with_deps(self, name, lookup_primitive_rule(name))
    ELSE Returns(self, RuleKey(name, 0))

insert_deps(self, deps) ==
    IF deps = <<>> \/ self.st # "ok" THEN self
    ELSE IF HasName(self.rules, Head(deps))
         THEN insert_deps(self, Tail(deps))
         ELSE insert_deps(insert_primitive(self, Head(deps)), Tail(deps))

\* After the dependencies: the primitive itself, unless its name is present;
\* the call returns.
put_primitive(self, name, prim) ==
    IF self.st # "ok" THEN self
    ELSE [self EXCEPT
            !.rules = IF HasName(@, name) THEN @
                      ELSE Put(@, RuleKey(name, 0), Raw(prim.content, prim.refs)),
            !.key = RuleKey(name, 0),
            !.stack = SubSeq(@, 1, Len(@) - 1)]

insert_primitive_with_deps(self, name, prim) ==
    IF self.st # "ok" THEN self
    ELSE IF <<name, DOMAIN self.rules>> \in Range(self.stack)
    THEN Err(self, "overflow")
    ELSE put_primitive(
             insert_deps(
                 [self EXCEPT !.stack = Append(@, <<name, DOMAIN self.rules>>)],
                 prim.deps),
             name, prim)

(***************************************************************************)
(* Rules::build_repetition_str / build_repetition_sep (text only).         *)
(***************************************************************************)
build_repetition_str_star(item, min, max) ==
    IF max = -1 THEN item \o "*"
    ELSE item \o "{" \o ToString(min) \o "," \o ToString(max) \o "}"

build_repetition_str(item, min, max) ==
    IF min = 0 /\ max = 0 THEN ""
    ELSE IF min = 0 /\ max = 1 THEN item \o "?"
    ELSE IF min = 1 /\ max = -1 THEN item \o "+"
    ELSE IF min = 0 /\ max = -1 THEN item \o "*"
    ELSE IF max = -1 THEN item \o "{" \o ToString(min) \o ",}"
    ELSE IF min = max THEN item \o "{" \o ToString(min) \o "}"
    ELSE item \o "{" \o ToString(min) \o "," \o ToString(max) \o "}"

SaturatingSub1(n) == IF n > 0 THEN n - 1 ELSE 0

build_repetition_sep(item, min, max, sep) ==
    IF max = 0 THEN ""
    ELSE IF min = 0 /\ max = 1 THEN item \o "?"
    ELSE LET inner == "(" \o sep \o " " \o item \o ")"
             inner_min == SaturatingSub1(min)
             inner_max == IF max = -1 THEN -1 ELSE SaturatingSub1(max)
             inner_rep == build_repetition_str(inner, inner_min, inner_max)
             res == item \o " " \o inner_rep
         IN IF min = 0 THEN "(" \o res \o ")?" ELSE res

(***************************************************************************)
(* Rules::insert_schema and the per-type lowerings (GBNF).                 *)
(***************************************************************************)
CommaSpace == "\",\" space"

\* Separator-joined keys: k1 comma k2 comma ... (the required list, tuples).
RECURSIVE Interleave(_, _)
Interleave(keys, comma) ==
    IF Len(keys) <= 1 THEN keys
    ELSE <<Head(keys), comma>> \o Interleave(Tail(keys), comma)

LastSegment(ref_name) == ref_name[Len(ref_name)]

RECURSIVE insert_schema(_, _, _)
RECURSIVE insert_schema_list(_, _, _, _, _)
RECURSIVE insert_properties(_, _, _, _)
RECURSIVE insert_optionals(_, _, _)

\* schemas[i] lowered under name ++ sep ++ (i - 1), in order, the keys pushed
\* on the vector under construction (collect::<Result<Vec<_>, _>>).
insert_schema_list(self, name, sep, schemas, i) ==
    IF i > Len(schemas) \/ self.st # "ok" THEN self
    ELSE insert_schema_list(
             Push(insert_schema(self, name \o sep \o ToString(i - 1), schemas[i])),
             name, sep, schemas, i + 1)

insert_number_schema(self, name, num) ==
    IF num.integer THEN insert_primitive(self, "integer")
    ELSE insert_primitive(self, "number")

\* The rule of a string with length bounds, self.key being char_key.
string_of_chars(self, name, str_schema) ==
    insert_rule(self, name,
        Raw("\"\\\"\" "
              \o build_repetition_str(Display(self.key),
                     str_schema.min_length, str_schema.max_length)
              \o " \"\\\"\" space",
            IF build_repetition_str(Display(self.key),
                   str_schema.min_length, str_schema.max_length) = ""
            THEN <<"space">>
            ELSE <<Display(self.key), "space">>))

insert_string_schema(self, name, str_schema) ==
    IF str_schema.format # "" /\ (str_schema.format \o "-string") \in FormatNames
    THEN insert_primitive_with_deps(self, str_schema.format \o "-string",
             lookup_format_rule(str_schema.format \o "-string"))
    ELSE IF str_schema.pattern # ""
    THEN insert_rule(self, name,
             Raw("\"\\\"\" (" \o str_schema.pattern \o ") \"\\\"\" space", <<"space">>))
    ELSE IF str_schema.min_length > 0 \/ str_schema.max_length # -1
    THEN string_of_chars(insert_primitive(self, "char"), name, str_schema)
    ELSE insert_primitive(self, "string")

\* "[" space <inner> "]" space, self.key being the key of <name>-items.
array_of_tuple(self, name) ==
    insert_rule(self, name,
        Raw("\"[\" space " \o Display(self.key) \o " \"]\" space",
            <<"space", Display(self.key)>>))

\* The tuple items interleaved with comma, self.key being the comma key and
\* the vector under construction the item keys.
tuple_items(self, name) ==
    insert_sequence(Pop(self), name \o "-items", Interleave(Top(self), self.key))

\* "[" space <repetition of the item> "]" space, self.key being the item key.
array_of_items(self, name, arr) ==
    insert_rule(self, name,
        Raw("\"[\" space "
              \o build_repetition_sep(Display(self.key),
                     arr.min_items, arr.max_items, CommaSpace)
              \o " \"]\" space",
            IF build_repetition_sep(Display(self.key),
                   arr.min_items, arr.max_items, CommaSpace) = ""
            THEN <<"space">>
            ELSE <<"space", Display(self.key)>>))

insert_array_schema(self, name, arr) ==
    IF arr.prefix_items # <<>>
    THEN array_of_tuple(
             tuple_items(
                 insert_rule(
                     insert_schema_list(Open(self), name, "-tuple-", arr.prefix_items, 1),
                     "comma", Raw(CommaSpace, <<"space">>)),
                 name),
             name)
    ELSE IF arr.items # <<>>
    THEN array_of_items(insert_schema(self, name \o "-item", arr.items[1]), name, arr)
    ELSE insert_primitive(self, "array")

\* The kv rule of a property, self.key being the key of the property's schema;
\* kv_rules.push((prop_name, kv_key)).
insert_kv(self, name, prop_name) ==
    insert_rule(self, name \o "-" \o prop_name \o "-kv",
        Raw(gbnf_string_literal(Quote \o prop_name \o Quote)
              \o " space \":\" space " \o Display(self.key),
            <<"space", Display(self.key)>>))

\* kv_rules.push((prop_name, kv_key)), self.key being the kv key.
push_kv(self, prop_name) == PushKey(self, <<prop_name, self.key>>)

\* The loop over obj.properties: each property's schema, then its kv rule.
insert_properties(self, name, properties, i) ==
    IF i > Len(properties) \/ self.st # "ok" THEN self
    ELSE insert_properties(
             push_kv(insert_kv(insert_schema(self, name \o "-" \o properties[i][1],
                                             properties[i][2]),
                               name, properties[i][1]),
                     properties[i][1]),
             name, properties, i + 1)

\* The kv keys of the properties that are (required) or are not in
\* obj.required.
kv_keys(kv_rules, obj, required) ==
    LET kept == SelectSeq(kv_rules, LAMBDA p : (p[1] \in obj.required) = required)
    IN [j \in 1..Len(kept) |-> kept[j][2]]

\* In what follows the vector under construction is parts and the one below
\* it kv_rules.

\* The required kv keys interleaved with comma, self.key being the comma key.
required_sequence(self, name, obj) ==
    insert_sequence(self, name \o "-required",
        Interleave(kv_keys(Below(self), obj, TRUE), self.key))

\* When a property is required: comma, then the required sequence, whose
\* key goes to parts.
insert_required(self, name, obj) ==
    IF kv_keys(Below(self), obj, TRUE) = <<>> THEN self
    ELSE Push(required_sequence(
                  insert_rule(self, "comma", Raw(CommaSpace, <<"space">>)),
                  name, obj))

\* The loop over the optional kv keys: ("," space kv)? under "<kv>-opt".
insert_optionals(self, obj, i) ==
    IF i > Len(kv_keys(Below(self), obj, FALSE)) \/ self.st # "ok" THEN self
    ELSE insert_optionals(
             Push(insert_rule(self,
                      Display(kv_keys(Below(self), obj, FALSE)[i]) \o "-opt",
                      Raw("(\",\" space "
                            \o Display(kv_keys(Below(self), obj, FALSE)[i]) \o ")?",
                          <<"space", Display(kv_keys(Below(self), obj, FALSE)[i])>>))),
             obj, i + 1)

\* <name>-empty when there are no parts, else the sequence <name>-body.
insert_inner(self, name) ==
    IF Top(self) = <<>> THEN insert_rule(self, name \o "-empty", Raw("", <<>>))
    ELSE insert_sequence(self, name \o "-body", Top(self))

\* "{" space <inner> "}" space, self.key being the inner key; parts and
\* kv_rules end here.
object_of(self, name) ==
    insert_rule(Pop(Pop(self)), name,
        Raw("\"{\"  space " \o Display(self.key) \o " \"}\" space",
            <<"space", Display(self.key)>>))

insert_object_schema(self, name, obj) ==
    IF obj.properties = <<>> /\ ~obj.additional
    THEN insert_primitive(self, "object")
    ELSE object_of(
             insert_inner(
                 insert_optionals(
                     insert_required(
                         Open(insert_properties(Open(self), name, obj.properties, 1)),
                         name, obj),
                     obj, 1),
                 name),
             name)

QuoteAll(vals) == [i \in 1..Len(vals) |-> gbnf_string_literal(vals[i])]

insert_schema(self, name, schema) ==
    IF self.st # "ok" THEN self
    ELSE
    CASE schema.t = "Any" -> insert_primitive(self, "value")
      [] schema.t = "Unsatisfiable" -> Err(self, "JsonSchemaConversion")
      [] schema.t = "Null" -> insert_primitive(self, "null")
      [] schema.t = "Boolean" ->
           IF schema.b = "none" THEN insert_primitive(self, "boolean")
           ELSE insert_rule(self, name,
                    Raw(Quote \o schema.b \o Quote \o " space", <<"space">>))
      [] schema.t = "Number" -> insert_number_schema(self, name, schema)
      [] schema.t = "String" -> insert_string_schema(self, name, schema)
      [] schema.t = "Array" -> insert_array_schema(self, name, schema)
      [] schema.t = "Object" -> insert_object_schema(self, name, schema)
      [] schema.t = "AnyOf" ->
           alternative_of(insert_schema_list(Open(self), name, "-", schema.alts, 1),
                          name)
      [] schema.t = "Const" ->
           insert_rule(self, name,
               Raw(gbnf_string_literal(schema.val) \o " space", <<"space">>))
      [] schema.t = "Enum" ->
           insert_rule(self, name,
               Raw("(" \o Join(QuoteAll(schema.vals), " | ") \o ") space", <<"space">>))
      [] schema.t = "Ref" -> Returns(self, RuleKey(LastSegment(schema.ref), 0))

(***************************************************************************)
(* SchemaCompiler::compile (crate::schema) is not part of the sources.     *)
(* A JSON schema value of the model carries its JSON text, whether the     *)
(* JSON-Schema meta-validation accepts it, and the outcome of compile on   *)
(* it: the AST of section 4.4, or no AST when compile fails.               *)
(***************************************************************************)
JsonSchema(json, valid, compiles, ast) ==
    [json |-> json, valid |-> valid, compiles |-> compiles, ast |-> ast]

SchemaCompile(js) ==
    IF js.compiles THEN [st |-> "ok", schema |-> js.ast]
    ELSE [st |-> "JsonSchemaConversion", schema |-> SAny]

(***************************************************************************)
(* Rules::insert_lexeme and Rules::insert_text_lexeme.                     *)
(***************************************************************************)
to_uppercase(key) ==
    CASE key = "sequence" -> "SEQUENCE"
      [] key = "tool_choice" -> "TOOL_CHOICE"
      [] key = "name" -> "NAME"
      [] key = "parameters" -> "PARAMETERS"
      [] key = "text" -> "TEXT"
      [] key = "a" -> "A"
      [] key = "b" -> "B"
      [] OTHER -> key

insert_lexeme(self, key, lexeme) ==
    IF self.st # "ok" THEN self
    ELSE IF self.syntax = "Lark"
    THEN insert_rule(self, to_uppercase(key),
             CASE lexeme.k = "text" -> Terminal(lark_string_literal(lexeme.v), "literal")
               [] lexeme.k = "token" -> Terminal(lark_token_literal(lexeme.v), "token")
               [] lexeme.k = "regex" -> Terminal(lark_regex(lexeme.v), "regex")
               [] lexeme.k = "json" -> Terminal(lark_json_schema(lexeme.v), "json"))
    ELSE CASE lexeme.k = "text" ->
                insert_rule(self, key, Terminal(gbnf_string_literal(lexeme.v), "literal"))
           [] lexeme.k = "token" ->
                insert_rule(self, key, Terminal(gbnf_string_literal(lexeme.v), "literal"))
           [] lexeme.k = "regex" ->
                insert_rule(self, key, Terminal(gbnf_regex(lexeme.v), "regex"))
           [] lexeme.k = "json" ->
                IF SchemaCompile(lexeme.js).st # "ok"
                THEN Err(self, SchemaCompile(lexeme.js).st)
                ELSE insert_schema(self, key, SchemaCompile(lexeme.js).schema)

insert_text_lexeme(self) ==
    IF self.syntax = "Lark" THEN insert_lexeme(self, "text", LexText(LARK_TEXT))
    ELSE insert_lexeme(self, "text", LexText(GBNF_TEXT))

(***************************************************************************)
(* SpecRules: one Rules value (Rules::new(syntax)) and arbitrary calls of  *)
(* its insert operations, as one compilation may issue them.               *)
(***************************************************************************)
Syntaxes == {"Lark", "GBNF"}

\* Logical names and lexemes the calls draw from.
LogicalNames == {"a", "b"}

StringSchemaJson ==
    JsonSchema("{\"type\":\"string\"}", TRUE, TRUE, SString("", "", 0, -1))

RuleLexemes ==
    {LexText("x"), LexToken("x"), LexRegex("x")}

KeySeqs(r) ==
    { <<k>> : k \in DOMAIN r } \cup { <<k1, k2>> : k1 \in DOMAIN r, k2 \in DOMAIN r }

RepetitionBounds == { <<0, -1>>, <<0, 1>> }

IdleResult == [kind |-> "none"]

\* No consumer has been made.
NoConsumer == [input |-> <<>>, fed |-> 0, json |-> [t |-> "Start"], results |-> <<>>]

InitRules ==
    /\ rules = EmptyRules
    /\ syntax \in Syntaxes
    /\ last = [op |-> "new", name |-> "", text |-> "", key |-> NoKey, fresh |-> FALSE]
    /\ config = "none"
    /\ pc = "rules"
    /\ result = IdleResult
    /\ consumer = NoConsumer

\* The Rules value of the specification as the receiver of a call.
Self == [Rules_new(syntax) EXCEPT !.rules = rules]

\* The effect of one call: the table it leaves, and what was asked and returned.
Called(op, name, text, ret) ==
    /\ ret.st = "ok"
    /\ rules' = ret.rules
    /\ last' = [op |-> op, name |-> name, text |-> text, key |-> ret.key,
                fresh |-> ret.key \notin DOMAIN rules]
    /\ UNCHANGED <<syntax, config, pc, result, consumer>>

\* What insert_lexeme hands to insert_rule: the logical name (upper-cased in
\* Lark) and the text of the lexeme in the syntax.
lexeme_name(syn, key) == IF syn = "Lark" THEN to_uppercase(key) ELSE key

lexeme_text(syn, lexeme) ==
    IF syn = "Lark"
    THEN CASE lexeme.k = "text" -> lark_string_literal(lexeme.v)
           [] lexeme.k = "token" -> lark_token_literal(lexeme.v)
           [] lexeme.k = "regex" -> lark_regex(lexeme.v)
           [] lexeme.k = "json" -> lark_json_schema(lexeme.v)
    ELSE CASE lexeme.k = "regex" -> gbnf_regex(lexeme.v)
           [] OTHER -> gbnf_string_literal(lexeme.v)

RulesInsertLexeme ==
    /\ Cardinality(DOMAIN rules) < MaxRules
    /\ \E name \in LogicalNames, lexeme \in RuleLexemes :
         Called("rule", lexeme_name(syntax, name), lexeme_text(syntax, lexeme),
                insert_lexeme(Self, name, lexeme))

RulesInsertSequence ==
    /\ Cardinality(DOMAIN rules) < MaxRules
    /\ \E name \in LogicalNames, keys \in KeySeqs(rules) :
         Called("rule", name, Join(DisplayAll(keys), " "),
                insert_sequence(Self, name, keys))

RulesInsertAlternative ==
    /\ Cardinality(DOMAIN rules) < MaxRules
    /\ \E name \in LogicalNames, keys \in KeySeqs(rules) :
         Called("rule", name, Join(DisplayAll(keys), " | "),
                insert_alternative(Self, name, keys))

RulesInsertRepetition ==
    /\ Cardinality(DOMAIN rules) < MaxRules
    /\ \E name \in LogicalNames, key \in DOMAIN rules, b \in RepetitionBounds :
         Called("rule", name, RepetitionText(Display(key), b[1], b[2]),
                insert_repetition(Self, name, key, b[1], b[2]))

\* A JSON-schema lexeme: in GBNF {"type":"string"} is lowered to the string
\* primitive and its dependency, in Lark it is one %json rule.
RulesInsertSchemaLexeme ==
    /\ Cardinality(DOMAIN rules) + 1 < MaxRules
    /\ IF syntax = "Lark"
       THEN Called("rule", lexeme_name(syntax, "parameters"),
                   lexeme_text(syntax, LexJsonSchema(StringSchemaJson)),
                   insert_lexeme(Self, "parameters", LexJsonSchema(StringSchemaJson)))
       ELSE Called("primitive", "string", lookup_primitive_rule("string").content,
                   insert_lexeme(Self, "parameters", LexJsonSchema(StringSchemaJson)))

NextRules ==
    \/ RulesInsertLexeme
    \/ RulesInsertSequence
    \/ RulesInsertAlternative
    \/ RulesInsertRepetition
    \/ RulesInsertSchemaLexeme

SpecRules == InitRules /\ [][NextRules]_vars

(***************************************************************************)
(* Part 2.  The envelope compiler: Acquiesce::render and what it calls.    *)
(***************************************************************************)

\* OrderedLexemes::render: every lexeme under "sequence", then their sequence.
RECURSIVE insert_lexemes(_, _, _)
insert_lexemes(self, literals, i) ==
    IF i > Len(literals) \/ self.st # "ok" THEN self
    ELSE insert_lexemes(Push(insert_lexeme(self, "sequence", literals[i])),
                        literals, i + 1)

OrderedLexemes_render(self, literals) ==
    sequence_of(insert_lexemes(Open(self), literals, 1), "sequence")

\* if let Some(lexemes) = opt { acc.push(lexemes.render(rules)?) }, opt being
\* a sequence of length 0 or 1.
RenderOptional(self, opt) ==
    IF opt = <<>> THEN self
    ELSE Push(OrderedLexemes_render(self, opt[1]))

(***************************************************************************)
(* TemplateTool, From<ChatTool> (src/src/render/template.rs) and           *)
(* TemplateTool::naive_json_schema.                                        *)
(***************************************************************************)
TemplateTool(name, parameters) == [name |-> name, parameters |-> parameters]

TemplateTool_from(tool) ==
    IF tool.kind = "function" THEN TemplateTool(tool.name, tool.parameters)
    ELSE IF tool.format = "text"
    THEN TemplateTool(tool.name, StringSchemaJson)
    ELSE IF tool.format = "lark"
    THEN TemplateTool(tool.name,
             JsonSchema("{\"description\":\"a string that conforms to the following Lark grammar: "
                            \o tool.definition
                            \o "\",\"type\":\"string\"}",
                        TRUE, TRUE, SString("", "", 0, -1)))
    ELSE TemplateTool(tool.name,
             JsonSchema("{\"pattern\":\"" \o tool.definition \o "\",\"type\":\"string\"}",
                        TRUE, TRUE, SString("", tool.definition, 0, -1)))

\* The JSON the json! macro builds: the name enumerates name_key, the
\* arguments' "properties" is the tool's parameters, and "required" sits
\* inside "properties".  The outcome of compile on it is not decided by the
\* sources: compiles is an input, and the AST then is that of section 4.5.
naive_json_schema(tool, name_key, argument_key, compiles) ==
    JsonSchema(
        "{\"properties\":{\"" \o argument_key \o "\":{\"properties\":"
            \o tool.parameters.json \o ",\"type\":\"object\"},\"name\":{\"enum\":[\""
            \o name_key \o "\"],\"type\":\"string\"},\"required\":[\"name\",\""
            \o argument_key \o "\"]},\"type\":\"object\"}",
        TRUE, compiles /\ tool.parameters.compiles,
        SObject(<< <<"name", SEnum(<<Quote \o name_key \o Quote>>)>>,
                   <<argument_key, tool.parameters.ast>> >>,
                {}, FALSE))

NaiveSchemas(tools, name_key, argument_key, compiles) ==
    [i \in 1..Len(tools) |-> naive_json_schema(tools[i], name_key, argument_key, compiles)]

(***************************************************************************)
(* ToolCall::render.                                                       *)
(***************************************************************************)
RECURSIVE NamedParameters_items(_, _, _, _)

\* One tool's sequence: prefix? name delimiter? parameters suffix?.
NamedParameters_item(self, tool_call, tool) ==
    sequence_of(
        RenderOptional(
            Push(insert_lexeme(
                RenderOptional(
                    Push(insert_lexeme(
                        RenderOptional(Open(self), tool_call.prefix),
                        "name", LexText(tool.name))),
                    tool_call.delimiter),
                "parameters", LexJsonSchema(tool.parameters))),
            tool_call.suffix),
        "tool_choice_item")

NamedParameters_items(self, tool_call, tools, i) ==
    IF i > Len(tools) \/ self.st # "ok" THEN self
    ELSE NamedParameters_items(Push(NamedParameters_item(self, tool_call, tools[i])),
                               tool_call, tools, i + 1)

\* json!({"anyOf": schema_choices})
object_schema(schema_choices) ==
    JsonSchema(
        "{\"anyOf\":["
          \o Join([i \in 1..Len(schema_choices) |-> schema_choices[i].json], ",")
          \o "]}",
        TRUE,
        \A i \in 1..Len(schema_choices) : schema_choices[i].compiles,
        SAnyOf([i \in 1..Len(schema_choices) |-> schema_choices[i].ast]))

\* json!({"type": "array", "items": {"anyOf": schema_choices}})
array_schema(schema_choices) ==
    JsonSchema(
        "{\"items\":" \o object_schema(schema_choices).json \o ",\"type\":\"array\"}",
        TRUE,
        object_schema(schema_choices).compiles,
        SArray(<<>>, <<object_schema(schema_choices).ast>>, 0, -1))

ToolCall_render(self, tool_call, tools, compiles) ==
    CASE tool_call.type = "json_object" ->
           insert_lexeme(self, "tool_choice",
               LexJsonSchema(object_schema(
                   NaiveSchemas(tools, tool_call.name_key, tool_call.argument_key,
                                compiles))))
      [] tool_call.type = "json_array" ->
           insert_lexeme(self, "tool_choice",
               LexJsonSchema(array_schema(
                   NaiveSchemas(tools, tool_call.name_key, tool_call.argument_key,
                                compiles))))
      [] tool_call.type = "named_parameters" ->
           alternative_of(NamedParameters_items(Open(self), tool_call, tools, 1),
                          "tool_choices")

(***************************************************************************)
(* ChatToolChoice::render: Option<(RuleKey, bool)>.  st = "no_grammar" is  *)
(* None; Some((key, allow_content)) is self.key with self.some and         *)
(* self.allow_content; call_rule is the key ToolCall::render returned.     *)
(***************************************************************************)
Auto == [type |-> "auto", name |-> ""]
None == [type |-> "none", name |-> ""]
Required == [type |-> "required", name |-> ""]
Function(name) == [type |-> "function", name |-> name]

\* Faulty variant of the lookup: falls back to the first tool.
FindTool_or_first(validated_tools, name) ==
    IF SelectSeq(validated_tools, LAMBDA t : t.name = name) # <<>>
    THEN <<SelectSeq(validated_tools, LAMBDA t : t.name = name)[1]>>
    ELSE IF validated_tools = <<>> THEN <<>> ELSE <<validated_tools[1]>>

\* validated_tools.iter().find(|tool| &tool.name == name)
FindTool(validated_tools, name) ==
    IF SelectSeq(validated_tools, LAMBDA t : t.name = name) = <<>> THEN <<>>
    ELSE <<SelectSeq(validated_tools, LAMBDA t : t.name = name)[1]>>

\* Some((tool_choice, allow_content)), self.key being tool_choice.
Some(self, allow_content) ==
    IF self.st # "ok" THEN self
    ELSE [self EXCEPT !.some = TRUE, !.allow_content = allow_content]

\* insert_repetition("tool_choice", tool_choice, 0, Some(1))
optional_call(self) == insert_repetition(self, "tool_choice", self.key, 0, 1)

\* Faulty variant: every tool choice is taken as None.
ChatToolChoice_render_none(self, tool_choice, tool_call, validated_tools, compiles) ==
    Err(self, "no_grammar")

ChatToolChoice_render(self, tool_choice, tool_call, validated_tools, compiles) ==
    CASE tool_choice.type = "auto" ->
           Some(optional_call(Bind(
                    ToolCall_render(self, tool_call, validated_tools, compiles),
                    "call_rule")),
                TRUE)
      [] tool_choice.type = "none" -> Err(self, "no_grammar")
      [] tool_choice.type = "required" ->
           Some(Bind(
                    ToolCall_render(self, tool_call, validated_tools, compiles),
                    "call_rule"),
                FALSE)
      [] tool_choice.type = "function" ->
           IF FindTool(validated_tools, tool_choice.name) = <<>>
           THEN Err(self, "ChatToolChoice")
           ELSE Some(Bind(
                         ToolCall_render(self, tool_call,
                             FindTool(validated_tools, tool_choice.name), compiles),
                         "call_rule"),
                     FALSE)

(***************************************************************************)
(* Tool validation: the try_fold of render.  The verdicts of the JSON      *)
(* Schema meta-validator, of the Lark parser factory and of the regex      *)
(* engine are carried by the tool (parameters.valid, definition_valid).    *)
(***************************************************************************)
FunctionTool(name, parameters) ==
    [kind |-> "function", name |-> name, parameters |-> parameters]

CustomTool(name, format, definition, definition_valid) ==
    [kind |-> "custom", name |-> name, format |-> format,
     definition |-> definition, definition_valid |-> definition_valid]

ValidateTool(tool) ==
    IF tool.kind = "function"
    THEN IF tool.parameters.valid THEN "ok" ELSE "JsonSchema"
    ELSE IF tool.format = "text" THEN "ok"
    ELSE IF tool.format = "lark"
    THEN IF tool.definition_valid THEN "ok" ELSE "Lark"
    ELSE IF tool.definition_valid THEN "ok" ELSE "Regex"

\* A variant of the fold that goes through the whole list and reports the
\* last tool that fails.
ValidateTools_last(tools) ==
    IF \E i \in 1..Len(tools) : ValidateTool(tools[i]) # "ok"
    THEN [st |-> ValidateTool(tools[CHOOSE i \in 1..Len(tools) :
                                      /\ ValidateTool(tools[i]) # "ok"
                                      /\ \A j \in (i + 1)..Len(tools) :
                                            ValidateTool(tools[j]) = "ok"]),
          name |-> tools[CHOOSE i \in 1..Len(tools) :
                           /\ ValidateTool(tools[i]) # "ok"
                           /\ \A j \in (i + 1)..Len(tools) :
                                 ValidateTool(tools[j]) = "ok"].name,
          tools |-> <<>>]
    ELSE [st |-> "ok", name |-> "",
          tools |-> [i \in 1..Len(tools) |-> TemplateTool_from(tools[i])]]

\* The try_fold stops at the first tool that fails, with its error and the
\* name of the tool (name.clone()); else every tool is pushed as a
\* TemplateTool.
ValidateTools(tools) ==
    IF \E i \in 1..Len(tools) : ValidateTool(tools[i]) # "ok"
    THEN [st |-> ValidateTool(tools[CHOOSE i \in 1..Len(tools) :
                                      /\ ValidateTool(tools[i]) # "ok"
                                      /\ \A j \in 1..(i - 1) : ValidateTool(tools[j]) = "ok"]),
          name |-> tools[CHOOSE i \in 1..Len(tools) :
                           /\ ValidateTool(tools[i]) # "ok"
                           /\ \A j \in 1..(i - 1) : ValidateTool(tools[j]) = "ok"].name,
          tools |-> <<>>]
    ELSE [st |-> "ok", name |-> "",
          tools |-> [i \in 1..Len(tools) |-> TemplateTool_from(tools[i])]]

(***************************************************************************)
(* ChatTemplate::render: the template engine is an external collaborator.  *)
(* The prompt is identified by what the template was rendered with; the    *)
(* engine fails on the messages the template rejects.                      *)
(***************************************************************************)
Prompt(messages, tool_names) == [messages |-> messages, tools |-> tool_names]

EmptyPrompt == [messages |-> "", tools |-> <<>>]

ChatTemplate_render(messages, tools) ==
    IF messages = "raise" THEN [st |-> "Template", prompt |-> EmptyPrompt]
    ELSE [st |-> "ok", prompt |-> Prompt(messages, [i \in 1..Len(tools) |-> tools[i].name])]

(***************************************************************************)
(* Rules::resolve.  The root rule is removed and emitted inline; the other *)
(* rules follow in the iteration order of the HashMap, which is not        *)
(* specified: seed selects one of the orders modelled.                     *)
(***************************************************************************)
RECURSIVE KeyOrder(_)
KeyOrder(keys) ==
    IF keys = {} THEN <<>>
    ELSE LET k == CHOOSE x \in keys : TRUE IN <<k>> \o KeyOrder(keys \ {k})

IterationOrder(r, seed) ==
    IF seed = 0 THEN KeyOrder(DOMAIN r)
    ELSE [i \in 1..Cardinality(DOMAIN r) |->
              KeyOrder(DOMAIN r)[Cardinality(DOMAIN r) + 1 - i]]

Remove(r, key) == [k \in DOMAIN r \ {key} |-> r[k]]

RuleLines(r, order, sep) ==
    [i \in 1..Len(order) |-> Display(order[i]) \o sep \o r[order[i]].text]

\* The grammar is the lines joined by "\n"; it is kept as its lines.
RootRule(r, root_key) ==
    IF root_key \in DOMAIN r THEN r[root_key] ELSE Body("", "sequence", <<>>, 1, 1)

\* Faulty variant: the root rule stays in the table and is listed again.
resolve_keeping_root(self, root_key, seed) ==
    [root |-> RootRule(self.rules, root_key),
     table |-> self.rules,
     lines |-> IF self.syntax = "Lark"
               THEN <<"start: " \o RootRule(self.rules, root_key).text>>
                      \o RuleLines(self.rules, IterationOrder(self.rules, seed), ": ")
               ELSE <<"root ::= " \o RootRule(self.rules, root_key).text>>
                      \o RuleLines(self.rules, IterationOrder(self.rules, seed), " ::= ")]

resolve(self, root_key, seed) ==
    [root |-> RootRule(self.rules, root_key),
     table |-> Remove(self.rules, root_key),
     lines |-> IF self.syntax = "Lark"
               THEN <<"start: " \o RootRule(self.rules, root_key).text>>
                      \o RuleLines(Remove(self.rules, root_key),
                             IterationOrder(Remove(self.rules, root_key), seed), ": ")
               ELSE <<"root ::= " \o RootRule(self.rules, root_key).text>>
                      \o RuleLines(Remove(self.rules, root_key),
                             IterationOrder(Remove(self.rules, root_key), seed), " ::= ")]

(***************************************************************************)
(* Acquiesce::render.                                                      *)
(*   kind "ok": Ok(RenderResult); "err": Err(err); "overflow": the call    *)
(*   exhausts the stack and returns nothing.                               *)
(*   grammar is <<>> (None) or the lines of the text; table, root,         *)
(*   has_grammar tells Some from None; tools_rule,                         *)
(*   text_rule, call_rule and built (rules inserted) describe the          *)
(*   compilation behind the grammar.                                       *)
(***************************************************************************)
NoGrammar(kind, err, prompt, built) ==
    [kind |-> kind, err |-> err, tool |-> "", prompt |-> prompt,
     has_grammar |-> FALSE, grammar |-> <<>>,
     table |-> EmptyRules, root |-> Body("", "sequence", <<>>, 1, 1),
     tools_rule |-> NoKey, text_rule |-> NoKey, call_rule |-> NoKey,
     built |-> built]

Failed(st, built) ==
    IF st = "overflow" THEN NoGrammar("overflow", "", EmptyPrompt, built)
    ELSE NoGrammar("err", st, EmptyPrompt, built)

\* if parallel_tool_calls { tool_choice = insert_repetition(...) };
\* acc.push(tool_choice)
push_tool_choice(self, tool_choice, parallel_tool_calls) ==
    IF parallel_tool_calls
    THEN Push(insert_repetition(self, "tool_choice", tool_choice, 0, -1))
    ELSE PushKey(self, tool_choice)

\* Faulty variant of the section arm: parallel_tool_calls is ignored.
Section_render_once(self, tool_calls, parallel_tool_calls) ==
    sequence_of(
        RenderOptional(
            PushKey(Push(OrderedLexemes_render(Open(self), tool_calls.prefix)),
                    self.key),
            tool_calls.suffix),
        "tool_choices")

\* The ToolCallsSection arm, self.key being the tool choice: prefix, the tool
\* choice (repeated when parallel), suffix?, as the sequence "tool_choices".
Section_render(self, tool_calls, parallel_tool_calls) ==
    sequence_of(
        RenderOptional(
            push_tool_choice(
                Push(OrderedLexemes_render(Open(self), tool_calls.prefix)),
                self.key, parallel_tool_calls),
            tool_calls.suffix),
        "tool_choices")

\* The match on tool_calls, after tool_choice.render: the key bound to
\* tools_rule.
tools_rule_of(self, tool_calls, parallel_tool_calls) ==
    IF self.st # "ok" \/ tool_calls.type = "tool_call" THEN self
    ELSE Section_render(self, tool_calls, parallel_tool_calls)

\* if let Some(Thinking { prefix, suffix }) = thinking { ... }
push_thinking(self, thinking) ==
    IF thinking = <<>> THEN self
    ELSE Push(OrderedLexemes_render(
                  PushKey(Push(OrderedLexemes_render(self, thinking[1].prefix)),
                          self.text_rule),
                  thinking[1].suffix))

\* if allow_content || mixed_content_tool_calls { acc.push(text_rule) }
push_text(self, mixed_content_tool_calls) ==
    IF self.allow_content \/ mixed_content_tool_calls
    THEN PushKey(self, self.text_rule)
    ELSE self

\* Faulty variant of the root assembly: the free text is always pushed.
Root_render_with_text(self, thinking, mixed_content_tool_calls) ==
    sequence_of(
        PushKey(PushKey(push_thinking(Open(self), thinking), self.text_rule),
                self.tools_rule),
        "root")

\* Faulty variant of the root assembly: the tool calls before the free text.
Root_render_tools_first(self, thinking, mixed_content_tool_calls) ==
    sequence_of(
        push_text(PushKey(push_thinking(Open(self), thinking), self.tools_rule),
                  mixed_content_tool_calls),
        "root")

\* Root assembly: thinking (prefix text suffix)?, text?, tools_rule.
Root_render(self, thinking, mixed_content_tool_calls) ==
    sequence_of(
        PushKey(push_text(push_thinking(Open(self), thinking),
                          mixed_content_tool_calls),
                self.tools_rule),
        "root")

\* Faulty variants: Harmony goes through a failing template; the tool list
\* is not tested by the short-circuit.
Harmony_render_failing == Failed("Template", FALSE)

ShortCircuits_untested_tools(self, tools, tool_choice) ==
    self.tool_calls = <<>> \/ tool_choice.type = "none"

\* The Config::Harmony arm: Ok, prompt String::new(), grammar None.
Harmony_render == NoGrammar("ok", "", EmptyPrompt, FALSE)

\* The let-else of render: anything but (Some(tool_calls), false, false).
ShortCircuits(self, tools, tool_choice) ==
    self.tool_calls = <<>> \/ tools = <<>> \/ tool_choice.type = "none"

\* What render returns once the compilation is over (compiled.key is root).
render_result(prompt, compiled, seed) ==
    IF compiled.st = "no_grammar" THEN NoGrammar("ok", "", prompt, FALSE)
    ELSE IF compiled.st # "ok" THEN Failed(compiled.st, compiled.rules # EmptyRules)
    ELSE [kind |-> "ok", err |-> "", tool |-> "", prompt |-> prompt,
          has_grammar |-> TRUE,
          grammar |-> resolve(compiled, compiled.key, seed).lines,
          table |-> resolve(compiled, compiled.key, seed).table,
          root |-> resolve(compiled, compiled.key, seed).root,
          tools_rule |-> compiled.tools_rule, text_rule |-> compiled.text_rule,
          call_rule |-> compiled.call_rule, built |-> TRUE]

render(self, messages, tools, tool_choice, parallel_tool_calls, mixed_content_tool_calls, grammar_syntax, compiles, seed) ==
    IF self.type = "harmony" THEN Harmony_render
    ELSE IF ShortCircuits(self, tools, tool_choice)
    THEN IF ChatTemplate_render(messages, <<>>).st # "ok"
         THEN Failed(ChatTemplate_render(messages, <<>>).st, FALSE)
         ELSE NoGrammar("ok", "", ChatTemplate_render(messages, <<>>).prompt, FALSE)
    ELSE IF ValidateTools(tools).st # "ok"
    THEN [Failed(ValidateTools(tools).st, FALSE) EXCEPT !.tool = ValidateTools(tools).name]
    ELSE IF ChatTemplate_render(messages, ValidateTools(tools).tools).st # "ok"
    THEN Failed(ChatTemplate_render(messages, ValidateTools(tools).tools).st, FALSE)
    ELSE render_result(
             ChatTemplate_render(messages, ValidateTools(tools).tools).prompt,
             Root_render(
                 Bind(insert_text_lexeme(
                          Bind(tools_rule_of(
                                   ChatToolChoice_render(Rules_new(grammar_syntax),
                                       tool_choice, self.tool_calls[1].tool_call,
                                       ValidateTools(tools).tools, compiles),
                                   self.tool_calls[1], parallel_tool_calls),
                               "tools_rule")),
                      "text_rule"),
                 self.thinking, mixed_content_tool_calls),
             seed)

(***************************************************************************)
(* Acquiesce::parser.  ToolCall::parser is todo!() in every arm: the call  *)
(* panics whenever a tool_calls shape is configured.                       *)
(***************************************************************************)
ToolCall_parser(tool_call) == "panic"

parser(self) ==
    IF self.type = "harmony" THEN "None"
    ELSE IF self.tool_calls = <<>> THEN "None"
    ELSE ToolCall_parser(self.tool_calls[1].tool_call)

(***************************************************************************)
(* The envelopes, tools and inputs the calls draw from.                    *)
(***************************************************************************)
Harmony == [type |-> "harmony"]

Components(thinking, tool_calls) ==
    [type |-> "components", thinking |-> thinking, tool_calls |-> tool_calls]

Thinking(prefix, suffix) == [prefix |-> prefix, suffix |-> suffix]

JsonObject(name_key, argument_key) ==
    [type |-> "json_object", name_key |-> name_key, argument_key |-> argument_key]

JsonArray(name_key, argument_key) ==
    [type |-> "json_array", name_key |-> name_key, argument_key |-> argument_key]

NamedParameters(prefix, delimiter, suffix) ==
    [type |-> "named_parameters", prefix |-> prefix, delimiter |-> delimiter,
     suffix |-> suffix]

ToolCall(tool_call) == [type |-> "tool_call", tool_call |-> tool_call]

ToolCallsSection(prefix, tool_call, suffix) ==
    [type |-> "tool_calls_section", prefix |-> prefix, tool_call |-> tool_call,
     suffix |-> suffix]

kimi_k2 ==
    Components(
        <<Thinking(<<LexToken("<thinking>")>>, <<LexToken("</thinking>")>>)>>,
        <<ToolCallsSection(
            <<LexToken("<|tool_calls_section_begin|>")>>,
            NamedParameters(
                <<<<LexToken("<|tool_call_begin|>functions.")>>>>,
                <<<<LexText(":"), LexRegex("[0-9]+"),
                    LexToken("<|tool_call_argument_begin|>")>>>>,
                <<<<LexToken("<|tool_call_end|>")>>>>),
            <<<<LexToken("<|tool_calls_section_end|>")>>>>)>>)

ConfigIds ==
    {"harmony", "kimi_k2", "plain", "single_json", "single_named", "section_array"}

ConfigOf(id) ==
    CASE id = "harmony" -> Harmony
      [] id = "kimi_k2" -> kimi_k2
      [] id = "plain" ->
           Components(<<Thinking(<<LexText("<think>")>>, <<LexText("</think>")>>)>>, <<>>)
      [] id = "single_json" ->
           Components(<<>>, <<ToolCall(JsonObject("name", "arguments"))>>)
      [] id = "single_named" ->
           Components(<<>>, <<ToolCall(NamedParameters(<<>>, <<<<LexText(":")>>>>, <<>>))>>)
      [] id = "section_array" ->
           Components(<<>>,
               <<ToolCallsSection(<<LexText("<tools>")>>,
                                  JsonArray("name", "parameters"), <<>>)>>)

AddParameters ==
    JsonSchema("{\"properties\":{\"a\":{\"type\":\"integer\"},\"b\":{\"type\":\"integer\"}},\"required\":[\"a\",\"b\"],\"type\":\"object\"}",
        TRUE, TRUE,
        SObject(<< <<"a", SNumber(TRUE)>>, <<"b", SNumber(TRUE)>> >>, {"a", "b"}, FALSE))

EchoParameters ==
    JsonSchema("{\"properties\":{\"d\":{\"format\":\"date\",\"type\":\"string\"},\"s\":{\"type\":\"string\"}},\"required\":[\"s\"],\"type\":\"object\"}",
        TRUE, TRUE,
        SObject(<< <<"d", SString("date", "", 0, -1)>>,
                   <<"s", SString("", "", 0, -1)>> >>, {"s"}, FALSE))

ToolIds == {"add", "echo", "any", "bad", "note", "gram", "re"}

ToolOf(id) ==
    CASE id = "add" -> FunctionTool("add", AddParameters)
      [] id = "echo" -> FunctionTool("echo", EchoParameters)
      [] id = "any" -> FunctionTool("any", JsonSchema("{}", TRUE, TRUE, SAny))
      [] id = "bad" ->
           FunctionTool("bad", JsonSchema("{\"type\":5}", FALSE, FALSE, SAny))
      [] id = "note" -> CustomTool("note", "text", "", TRUE)
      [] id = "gram" -> CustomTool("gram", "lark", "start: (", FALSE)
      [] id = "re" -> CustomTool("re", "regex", "(", FALSE)

ToolLists == UNION { [1..n -> ToolIds] : n \in 0..MaxTools }

\* The tools of a call.  compiles is the outcome SchemaCompiler::compile has
\* in this call on the parameters the meta-validation accepts.
WithOutcome(tool, compiles) ==
    IF tool.kind = "function"
    THEN [tool EXCEPT !.parameters.compiles = @ /\ compiles]
    ELSE tool

Tools(ids, compiles) == [i \in 1..Len(ids) |-> WithOutcome(ToolOf(ids[i]), compiles)]

ToolChoices == {Auto, None, Required, Function("add"), Function("nope")}

Messages == {"hello", "raise"}

HashSeeds == {0, 1}

\* The outcomes of compile that the call may meet: only the GBNF lowering
\* consults the compiler.
CompileOutcomes(self, grammar_syntax) ==
    IF /\ grammar_syntax = "GBNF"
       /\ self.type = "components"
       /\ self.tool_calls # <<>>
    THEN BOOLEAN ELSE {TRUE}

(***************************************************************************)
(* Spec: an envelope chosen at construction; render and parser called on   *)
(* it with arbitrary inputs; the caller takes the result and calls again.  *)
(***************************************************************************)
Call(messages, tools, tool_choice, parallel_tool_calls, mixed_content_tool_calls, grammar_syntax) ==
    [messages |-> messages, tools |-> tools, tool_choice |-> tool_choice,
     parallel_tool_calls |-> parallel_tool_calls,
     mixed_content_tool_calls |-> mixed_content_tool_calls,
     grammar_syntax |-> grammar_syntax]

Init ==
    /\ \E id \in ConfigIds : config = ConfigOf(id)
    /\ pc = "idle"
    /\ result = IdleResult
    /\ consumer = NoConsumer
    /\ rules = EmptyRules
    /\ syntax = "Lark"
    /\ last = [op |-> "new", name |-> "", text |-> "", key |-> NoKey, fresh |-> FALSE]

\* The call is over: its result with the inputs it was made with; a call
\* that exhausted the stack has aborted the process.
Returned(out, call) ==
    /\ result' = out @@ [call |-> call, op |-> "render"]
    /\ pc' = IF out.kind = "overflow" THEN "aborted" ELSE "returned"

Render ==
    /\ pc = "idle"
    /\ \E messages \in Messages, ids \in ToolLists, tool_choice \in ToolChoices,
          parallel_tool_calls \in BOOLEAN, mixed_content_tool_calls \in BOOLEAN,
          grammar_syntax \in Syntaxes :
         \E compiles \in CompileOutcomes(config, grammar_syntax), seed \in HashSeeds :
           Returned(render(config, messages, Tools(ids, compiles), tool_choice,
                           parallel_tool_calls, mixed_content_tool_calls,
                           grammar_syntax, compiles, seed),
                    Call(messages, ids, tool_choice, parallel_tool_calls,
                         mixed_content_tool_calls, grammar_syntax))
    /\ UNCHANGED <<config, rules, syntax, last, consumer>>

Parser ==
    /\ pc = "idle"
    /\ result' = [kind |-> parser(config), op |-> "parser"]
    /\ pc' = IF parser(config) = "panic" THEN "aborted" ELSE "returned"
    /\ UNCHANGED <<config, rules, syntax, last, consumer>>

\* The caller is done with the result.
Return ==
    /\ pc = "returned"
    /\ pc' = "idle"
    /\ result' = IdleResult
    /\ UNCHANGED <<config, rules, syntax, last, consumer>>

Next == Render \/ Parser \/ Return

Spec == Init /\ [][Next]_vars

(***************************************************************************)
(* Part 3.  The partial-JSON consumer (src/src/utils/partial_json.rs).     *)
(* A char is a one-character string; a String (buffer, key, the input) is  *)
(* the sequence of its chars.                                              *)
(***************************************************************************)

\* The chars of the model with their code points (c as u32); a scalar value
\* outside the table is the char written "U+<code point>".
CodePoints ==
    << <<"\t", 9>>, <<"\n", 10>>, <<"\f", 12>>, <<"\r", 13>>, <<" ", 32>>,
       <<"\"", 34>>, <<"+", 43>>, <<",", 44>>, <<"-", 45>>, <<".", 46>>,
       <<"/", 47>>, <<"0", 48>>, <<"1", 49>>, <<"2", 50>>, <<"3", 51>>,
       <<"4", 52>>, <<"5", 53>>, <<"6", 54>>, <<"7", 55>>, <<"8", 56>>,
       <<"9", 57>>, <<":", 58>>, <<"A", 65>>, <<"B", 66>>, <<"C", 67>>,
       <<"D", 68>>, <<"E", 69>>, <<"F", 70>>, <<"[", 91>>, <<"\\", 92>>,
       <<"]", 93>>, <<"a", 97>>, <<"b", 98>>, <<"c", 99>>, <<"d", 100>>,
       <<"e", 101>>, <<"f", 102>>, <<"h", 104>>, <<"l", 108>>, <<"n", 110>>,
       <<"q", 113>>, <<"r", 114>>, <<"s", 115>>, <<"t", 116>>, <<"u", 117>>,
       <<"{", 123>>, <<"}", 125>> >>

\* char::from_u32 on a scalar value.
CharOf(code_point) ==
    IF \E i \in 1..Len(CodePoints) : CodePoints[i][2] = code_point
    THEN CodePoints[CHOOSE i \in 1..Len(CodePoints) : CodePoints[i][2] = code_point][1]
    ELSE "U+" \o ToString(code_point)

\* char::from_u32 is None on the surrogates and beyond U+10FFFF.
IsScalarValue(code_point) ==
    /\ code_point \in 0..1114111
    /\ code_point \notin 55296..57343

\* char::is_control: the category Cc, U+0000..U+001F and U+007F..U+009F.
ControlCodes == (0..31) \cup (127..159)

is_control(c) == \E n \in ControlCodes : CharOf(n) = c

is_whitespace(c) == c \in {" ", "\t", "\n", "\r"}

Digits == {"0", "1", "2", "3", "4", "5", "6", "7", "8", "9"}

HexDigitsLower ==
    <<"0", "1", "2", "3", "4", "5", "6", "7", "8", "9", "a", "b", "c", "d", "e", "f">>

HexDigitsUpper ==
    <<"0", "1", "2", "3", "4", "5", "6", "7", "8", "9", "A", "B", "C", "D", "E", "F">>

is_ascii_hexdigit(c) ==
    \E i \in 1..16 : HexDigitsLower[i] = c \/ HexDigitsUpper[i] = c

HexValue(c) ==
    (CHOOSE i \in 1..16 : HexDigitsLower[i] = c \/ HexDigitsUpper[i] = c) - 1

\* u32::from_str_radix(digits, 16), digits being hex digits.
RECURSIVE from_str_radix16(_)
from_str_radix16(digits) ==
    IF digits = <<>> THEN 0
    ELSE from_str_radix16(SubSeq(digits, 1, Len(digits) - 1)) * 16
           + HexValue(digits[Len(digits)])

(***************************************************************************)
(* ConsumeResult (src/src/parse.rs) and what a call of consume_char        *)
(* leaves: the value after the call and the result returned.               *)
(***************************************************************************)
Consumed == [kind |-> "Consumed"]
Omitted == [kind |-> "Omitted"]
Unconsumed(c) == [kind |-> "Unconsumed", c |-> c]
Rejected(c, expected) == [kind |-> "Rejected", c |-> c, expected |-> expected]

Consume(self, consume_result) == [self |-> self, result |-> consume_result]

(***************************************************************************)
(* JsonString and StringState.                                             *)
(***************************************************************************)
StringState(s) == [s |-> s]

HexDigits(hex_digits) == [s |-> "HexDigits", hex_digits |-> hex_digits]

JsonString(buffer, state) == [buffer |-> buffer, state |-> state]

\* The match of StringState::Escaped on the escape character.
escape_char(c) ==
    CASE c = "\"" -> "\""
      [] c = "\\" -> "\\"
      [] c = "/" -> "/"
      [] c = "b" -> CharOf(8)
      [] c = "f" -> "\f"
      [] c = "n" -> "\n"
      [] c = "r" -> "\r"
      [] c = "t" -> "\t"

\* StringState::HexDigits on a hex digit, hex_digits holding it already.
consume_hex_digit(self, c, hex_digits) ==
    IF Len(hex_digits) = 4
    THEN IF IsScalarValue(from_str_radix16(hex_digits))
         THEN Consume(JsonString(Append(self.buffer, CharOf(from_str_radix16(hex_digits))),
                                 HexDigits(hex_digits)),
                      Consumed)
         ELSE Consume(JsonString(self.buffer, HexDigits(hex_digits)),
                      Rejected(c, "a valid unicode code point"))
    ELSE Consume(JsonString(self.buffer, HexDigits(hex_digits)), Omitted)

\* A variant of the Escaped arm that takes an unknown escape as the char itself.
Escaped_consume_char_lenient(self, c) ==
    IF c = "u" THEN Consume(JsonString(self.buffer, HexDigits(<<>>)), Omitted)
    ELSE Consume(JsonString(Append(self.buffer,
                                   IF c \in {"\"", "\\", "/", "b", "f", "n", "r", "t"}
                                   THEN escape_char(c) ELSE c),
                            StringState("Opened")),
                 Consumed)

\* StringState::Escaped.
Escaped_consume_char(self, c) ==
    IF c \in {"\"", "\\", "/", "b", "f", "n", "r", "t"}
    THEN Consume(JsonString(Append(self.buffer, escape_char(c)), StringState("Opened")),
                 Consumed)
    ELSE IF c = "u"
    THEN Consume(JsonString(self.buffer, HexDigits(<<>>)), Omitted)
    ELSE Consume(self, Rejected(c, "a valid json escape character"))

JsonString_consume_char(self, c) ==
    CASE self.state.s = "Start" ->
           IF is_whitespace(c) THEN Consume(self, Omitted)
           ELSE IF c = "\""
           THEN Consume(JsonString(self.buffer, StringState("Opened")), Consumed)
           ELSE Consume(self, Rejected(c, "a valid json string start character"))
      [] self.state.s = "Opened" ->
           IF c = "\""
           THEN Consume(JsonString(self.buffer, StringState("Closed")), Consumed)
           ELSE IF c = "\\"
           THEN Consume(JsonString(self.buffer, StringState("Escaped")), Omitted)
           ELSE IF is_control(c)
           THEN Consume(self, Rejected(c, "not a raw control character"))
           ELSE Consume(JsonString(Append(self.buffer, c), self.state), Consumed)
      [] self.state.s = "Escaped" -> Escaped_consume_char(self, c)
      [] self.state.s = "HexDigits" ->
           IF is_ascii_hexdigit(c)
           THEN consume_hex_digit(self, c, Append(self.state.hex_digits, c))
           ELSE Consume(self, Rejected(c, "valid hex digits for unicode"))
      [] self.state.s = "Closed" -> Consume(self, Unconsumed(c))

(***************************************************************************)
(* PartialJson, ObjectState, ArrayState, NumberState.                      *)
(***************************************************************************)
Start == [t |-> "Start"]
Object(entries, state) == [t |-> "Object", entries |-> entries, state |-> state]
Array(elements, state) == [t |-> "Array", elements |-> elements, state |-> state]
String(json_string) == [t |-> "String", json_string |-> json_string]
Number(buffer, state) == [t |-> "Number", buffer |-> buffer, state |-> state]
Literal(buffer, literal) == [t |-> "Literal", buffer |-> buffer, literal |-> literal]

\* str::chars of the three literals.
chars(literal) ==
    CASE literal = "true" -> <<"t", "r", "u", "e">>
      [] literal = "false" -> <<"f", "a", "l", "s", "e">>
      [] literal = "null" -> <<"n", "u", "l", "l">>

\* ObjectState::Opened, Comma, Closed and ArrayState::Opened, Comma, Closed.
State(s) == [s |-> s]
\* ObjectState::Key(JsonString); the other states name their String key.
Key(json_string) == [s |-> "Key", string |-> json_string]
Colon(key) == [s |-> "Colon", key |-> key]
Value(key, value) == [s |-> "Value", key |-> key, value |-> value]
Element(element) == [s |-> "Element", element |-> element]

\* The arm of PartialJson::Start.
Start_consume_char(c) ==
    IF is_whitespace(c) THEN Consume(Start, Omitted)
    ELSE CASE c = "{" -> Consume(Object(<<>>, State("Opened")), Consumed)
           [] c = "[" -> Consume(Array(<<>>, State("Opened")), Consumed)
           [] c = "\"" ->
                Consume(String(JsonString(<<>>, StringState("Opened"))), Consumed)
           [] c \in Digits \ {"0"} -> Consume(Number(<<c>>, "OpenedPositive"), Consumed)
           [] c = "0" -> Consume(Number(<<c>>, "OpenedZero"), Consumed)
           [] c = "-" -> Consume(Number(<<c>>, "OpenedNegative"), Consumed)
           [] c = "t" -> Consume(Literal(<<c>>, "true"), Consumed)
           [] c = "f" -> Consume(Literal(<<c>>, "false"), Consumed)
           [] c = "n" -> Consume(Literal(<<c>>, "null"), Consumed)
           [] OTHER -> Consume(Start, Rejected(c, "a valid json start character"))

\* buffer.push(c) under the state the match has set, then Consumed.
Number_push(self, c, state) == Consume(Number(Append(self.buffer, c), state), Consumed)

\* A variant of the arm that takes digits after a leading zero.
Number_consume_char_lenient(self, c) ==
    IF c \in Digits THEN
        Number_push(self, c,
            CASE self.state \in {"OpenedNegative", "OpenedZero"} -> "OpenedPositive"
              [] self.state = "FirstDecimal" -> "Decimal"
              [] self.state \in {"ExponentSign", "FirstExponent"} -> "Exponent"
              [] OTHER -> self.state)
    ELSE IF c = "." /\ self.state \in {"OpenedPositive", "OpenedZero"}
    THEN Number_push(self, c, "FirstDecimal")
    ELSE IF c \in {"e", "E"} /\ self.state \in {"OpenedPositive", "OpenedZero", "Decimal"}
    THEN Number_push(self, c, "ExponentSign")
    ELSE IF c \in {"+", "-"} /\ self.state = "ExponentSign"
    THEN Number_push(self, c, "FirstExponent")
    ELSE IF self.state \in {"OpenedPositive", "OpenedZero", "Decimal", "Exponent"}
    THEN Consume(self, Unconsumed(c))
    ELSE Consume(self, Rejected(c, "a digit"))

\* The arm of PartialJson::Number.
Number_consume_char(self, c) ==
    CASE self.state = "OpenedPositive" ->
           IF c \in Digits THEN Number_push(self, c, self.state)
           ELSE IF c = "." THEN Number_push(self, c, "FirstDecimal")
           ELSE IF c \in {"e", "E"} THEN Number_push(self, c, "ExponentSign")
           ELSE Consume(self, Unconsumed(c))
      [] self.state = "OpenedZero" ->
           IF c = "." THEN Number_push(self, c, "FirstDecimal")
           ELSE IF c \in {"e", "E"} THEN Number_push(self, c, "ExponentSign")
           ELSE IF c \in Digits THEN Consume(self, Rejected(c, "a dot or an exponent"))
           ELSE Consume(self, Unconsumed(c))
      [] self.state = "OpenedNegative" ->
           IF c \in Digits \ {"0"} THEN Number_push(self, c, "OpenedPositive")
           ELSE IF c = "0" THEN Number_push(self, c, "OpenedZero")
           ELSE Consume(self, Rejected(c, "a digit"))
      [] self.state = "FirstDecimal" ->
           IF c \in Digits THEN Number_push(self, c, "Decimal")
           ELSE Consume(self, Rejected(c, "a digit"))
      [] self.state = "Decimal" ->
           IF c \in Digits THEN Number_push(self, c, self.state)
           ELSE IF c \in {"e", "E"} THEN Number_push(self, c, "ExponentSign")
           ELSE Consume(self, Unconsumed(c))
      [] self.state = "ExponentSign" ->
           IF c \in {"+", "-"} THEN Number_push(self, c, "FirstExponent")
           ELSE IF c \in Digits THEN Number_push(self, c, "Exponent")
           ELSE Consume(self, Rejected(c, "a sign or a digit"))
      [] self.state = "FirstExponent" ->
           IF c \in Digits THEN Number_push(self, c, "Exponent")
           ELSE Consume(self, Rejected(c, "a digit"))
      [] self.state = "Exponent" ->
           IF c \in Digits THEN Number_push(self, c, self.state)
           ELSE Consume(self, Unconsumed(c))

\* str::starts_with.
starts_with(literal, buffer) ==
    /\ Len(buffer) <= Len(literal)
    /\ SubSeq(literal, 1, Len(buffer)) = buffer

\* The arm of PartialJson::Literal.
Literal_consume_char(self, c) ==
    IF Len(self.buffer) = Len(chars(self.literal)) THEN Consume(self, Unconsumed(c))
    ELSE IF ~starts_with(chars(self.literal), Append(self.buffer, c))
    THEN Consume(self, Rejected(c, self.literal))
    ELSE Consume(Literal(Append(self.buffer, c), self.literal), Consumed)

\* The second match of the Object arm, on the state the first match left.
Object_state(self, c) ==
    CASE self.state.s = "Opened" ->
           IF is_whitespace(c) THEN Consume(self, Omitted)
           ELSE IF c = "}" THEN Consume(Object(self.entries, State("Closed")), Consumed)
           ELSE IF c = "\""
           THEN Consume(Object(self.entries, Key(JsonString(<<>>, StringState("Opened")))),
                        Consumed)
           ELSE Consume(self, Rejected(c, "a valid json object start character"))
      [] self.state.s = "Colon" ->
           IF is_whitespace(c) THEN Consume(self, Omitted)
           ELSE IF c = ":"
           THEN Consume(Object(self.entries, Value(self.state.key, Start)), Consumed)
           ELSE Consume(self, Rejected(c, "a valid json object key value separator"))
      [] self.state.s = "Comma" ->
           IF is_whitespace(c) THEN Consume(self, Omitted)
           ELSE IF c = ","
           THEN Consume(Object(self.entries, Key(JsonString(<<>>, StringState("Start")))),
                        Consumed)
           ELSE IF c = "}" THEN Consume(Object(self.entries, State("Closed")), Consumed)
           ELSE Consume(self, Rejected(c, "a valid json object entry separator"))
      [] self.state.s = "Closed" -> Consume(self, Unconsumed(c))

\* ObjectState::Key: what key.consume_char(c) left decides.
Object_key(self, c, consumed) ==
    IF consumed.result.kind = "Unconsumed"
    THEN Object_state(Object(self.entries, Colon(consumed.self.buffer)), c)
    ELSE Consume(Object(self.entries, Key(consumed.self)), consumed.result)

\* A variant of the Value arm in which the char that ended the value is taken
\* for consumed without being offered to the object.
Object_value_swallowing(self, c, consumed) ==
    IF consumed.result.kind = "Unconsumed"
    THEN Consume(Object(Append(self.entries, <<self.state.key, consumed.self>>),
                        State("Comma")),
                 Consumed)
    ELSE Consume(Object(self.entries, Value(self.state.key, consumed.self)),
                 consumed.result)

\* ObjectState::Value: what value.consume_char(c) left decides.
Object_value(self, c, consumed) ==
    IF consumed.result.kind = "Unconsumed"
    THEN Object_state(Object(Append(self.entries, <<self.state.key, consumed.self>>),
                             State("Comma")), c)
    ELSE Consume(Object(self.entries, Value(self.state.key, consumed.self)),
                 consumed.result)

\* The second match of the Array arm, on Comma and Closed.
Array_state(self, c) ==
    CASE self.state.s = "Comma" ->
           IF is_whitespace(c) THEN Consume(self, Omitted)
           ELSE IF c = "," THEN Consume(Array(self.elements, Element(Start)), Consumed)
           ELSE IF c = "]" THEN Consume(Array(self.elements, State("Closed")), Consumed)
           ELSE Consume(self, Rejected(c, "a valid json array element separator"))
      [] self.state.s = "Closed" -> Consume(self, Unconsumed(c))

\* ArrayState::Opened on a char that opens the first element: the element
\* becomes the state whatever it returned.
Array_opened(self, consumed) ==
    Consume(Array(self.elements, Element(consumed.self)), consumed.result)

\* ArrayState::Element: what element.consume_char(c) left decides.
Array_element(self, c, consumed) ==
    IF consumed.result.kind = "Unconsumed"
    THEN Array_state(Array(Append(self.elements, consumed.self), State("Comma")), c)
    ELSE Array_opened(self, consumed)

\* The arm of PartialJson::String.
String_consume_char(consumed) == Consume(String(consumed.self), consumed.result)

RECURSIVE PartialJson_consume_char(_, _)
PartialJson_consume_char(self, c) ==
    CASE self.t = "Start" -> Start_consume_char(c)
      [] self.t = "Object" ->
           IF self.state.s = "Key"
           THEN Object_key(self, c, JsonString_consume_char(self.state.string, c))
           ELSE IF self.state.s = "Value"
           THEN Object_value(self, c, PartialJson_consume_char(self.state.value, c))
           ELSE Object_state(self, c)
      [] self.t = "Array" ->
           IF self.state.s = "Element"
           THEN Array_element(self, c, PartialJson_consume_char(self.state.element, c))
           ELSE IF self.state.s = "Opened"
           THEN IF is_whitespace(c) THEN Consume(self, Omitted)
                ELSE IF c = "]"
                THEN Consume(Array(self.elements, State("Closed")), Consumed)
                ELSE Array_opened(self, Start_consume_char(c))
           ELSE Array_state(self, c)
      [] self.t = "String" -> String_consume_char(JsonString_consume_char(self.json_string, c))
      [] self.t = "Number" -> Number_consume_char(self, c)
      [] self.t = "Literal" -> Literal_consume_char(self, c)
(***************************************************************************)
(* Display: the rendering of a JsonString and of a PartialJson, as the     *)
(* sequence of the chars written.                                          *)
(***************************************************************************)
\* c as u32, of a control char.
as_u32(c) == CHOOSE n \in ControlCodes : CharOf(n) = c

\* {:04x}
LowerHex4(n) ==
    << HexDigitsLower[((n \div 4096) % 16) + 1], HexDigitsLower[((n \div 256) % 16) + 1],
       HexDigitsLower[((n \div 16) % 16) + 1], HexDigitsLower[(n % 16) + 1] >>

\* The match on a char of the buffer, its arms in the order of the source.
JsonString_fmt_char(c) ==
    IF is_control(c) THEN <<"\\", "u">> \o LowerHex4(as_u32(c))
    ELSE CASE c = "\"" -> <<"\\", "\"">>
           [] c = "\\" -> <<"\\", "\\">>
           [] c = "/" -> <<"\\", "/">>
           [] c = CharOf(8) -> <<"\\", "b">>
           [] c = "\f" -> <<"\\", "f">>
           [] c = "\n" -> <<"\\", "n">>
           [] c = "\r" -> <<"\\", "r">>
           [] c = "\t" -> <<"\\", "t">>
           [] OTHER -> <<c>>

RECURSIVE JsonString_fmt_buffer(_)
JsonString_fmt_buffer(buffer) ==
    IF buffer = <<>> THEN <<>>
    ELSE JsonString_fmt_char(Head(buffer)) \o JsonString_fmt_buffer(Tail(buffer))

JsonString_fmt(self) ==
    (IF self.state.s # "Start" THEN <<"\"">> ELSE <<>>)
      \o JsonString_fmt_buffer(self.buffer)
      \o (IF self.state.s = "Closed" THEN <<"\"">> ELSE <<>>)

\* write!(f, "\"{key}\""), the key being a String.
Quoted(key) == <<"\"">> \o key \o <<"\"">>

comma_prefix(entries) == IF entries = <<>> THEN <<>> ELSE <<",">>

RECURSIVE PartialJson_fmt(_)

\* The loop over the entries, from the entry i on.
RECURSIVE fmt_entries(_, _)
fmt_entries(entries, i) ==
    IF i > Len(entries) THEN <<>>
    ELSE Quoted(entries[i][1]) \o <<":">> \o PartialJson_fmt(entries[i][2])
           \o (IF i < Len(entries) THEN <<",">> ELSE <<>>)
           \o fmt_entries(entries, i + 1)

\* The loop over the elements, from the element i on.
RECURSIVE fmt_elements(_, _)
fmt_elements(elements, i) ==
    IF i > Len(elements) THEN <<>>
    ELSE PartialJson_fmt(elements[i])
           \o (IF i < Len(elements) THEN <<",">> ELSE <<>>)
           \o fmt_elements(elements, i + 1)

PartialJson_fmt(self) ==
    CASE self.t = "Start" -> <<>>
      [] self.t = "Object" ->
           <<"{">> \o fmt_entries(self.entries, 1)
             \o (CASE self.state.s = "Key" ->
                        comma_prefix(self.entries) \o JsonString_fmt(self.state.string)
                   [] self.state.s = "Colon" ->
                        comma_prefix(self.entries) \o Quoted(self.state.key)
                   [] self.state.s = "Value" ->
                        comma_prefix(self.entries) \o Quoted(self.state.key) \o <<":">>
                          \o PartialJson_fmt(self.state.value)
                   [] self.state.s = "Closed" -> <<"}">>
                   [] OTHER -> <<>>)
      [] self.t = "Array" ->
           <<"[">> \o fmt_elements(self.elements, 1)
             \o (CASE self.state.s = "Element" ->
                        comma_prefix(self.elements) \o PartialJson_fmt(self.state.element)
                   [] self.state.s = "Closed" -> <<"]">>
                   [] OTHER -> <<>>)
      [] self.t = "String" -> JsonString_fmt(self.json_string)
      [] self.t = "Number" -> self.buffer
      [] self.t = "Literal" -> self.buffer

(***************************************************************************)
(* SpecJson: a fresh consumer (partial_json_consumer) is fed an input char *)
(* by char.  The inputs are the documents below and every string of at     *)
(* most MaxInput chars of Alphabet.                                        *)
(***************************************************************************)
MaxInput == 2

\* "\u0041"
UnicodeEscape ==
    <<"\"", "\\", "u", "0", "0", "4", "1", "\"">>

\* "\u0041f"
UnicodeEscapeThenHex ==
    <<"\"", "\\", "u", "0", "0", "4", "1", "f", "\"">>

\* "\uD83D\uDE00"
SurrogatePair ==
    <<"\"", "\\", "u", "D", "8", "3", "D", "\\", "u", "D", "E", "0", "0", "\"">>

\* "\q"
UnknownEscape ==
    <<"\"", "\\", "q", "\"">>

\* "\u00q1"
NonHexDigit ==
    <<"\"", "\\", "u", "0", "0", "q", "1", "\"">>

\* "a\n\"\/"
SimpleEscapes ==
    <<"\"", "a", "\\", "n", "\\", "\"", "\\", "/", "\"">>

\* a string holding the raw U+007F
RawDelete ==
    <<"\"", CharOf(127), "\"">>

\* {"a":1, "b":"hel
InFlightString ==
    <<"{", "\"", "a", "\"", ":", "1", ",", " ", "\"", "b", "\"", ":", "\"", "h",
      "e", "l">>

\* {"a":1,,}
DoubleComma ==
    <<"{", "\"", "a", "\"", ":", "1", ",", ",", "}">>

\* {"a":1,"b":2}
TwoEntries ==
    <<"{", "\"", "a", "\"", ":", "1", ",", "\"", "b", "\"", ":", "2", "}">>

\* [{"a":[1,-2.5e+3]},true,null]
Nested ==
    <<"[", "{", "\"", "a", "\"", ":", "[", "1", ",", "-", "2", ".", "5", "e", "+",
      "3", "]", "}", ",", "t", "r", "u", "e", ",", "n", "u", "l", "l", "]">>

\* an object with whitespace between its tokens
Spaced ==
    <<" ", "{", " ", "\"", "a", "\"", " ", ":", " ", "[", " ", "]", " ", ",", " ",
      "\"", "b", "\"", " ", ":", " ", "f", "a", "l", "s", "e", " ", "}", " ">>

\* -0.5E-2
Exponent ==
    <<"-", "0", ".", "5", "E", "-", "2">>

\* {"k\n":["\t"]}
NestedEscapes ==
    <<"{", "\"", "k", "\\", "n", "\"", ":", "[", "\"", "\\", "t", "\"", "]", "}">>

Documents ==
    {UnicodeEscape, UnicodeEscapeThenHex, SurrogatePair, UnknownEscape, NonHexDigit, SimpleEscapes, RawDelete,
     InFlightString, DoubleComma, TwoEntries, Nested, Spaced, Exponent, NestedEscapes}

Alphabet ==
    {"{", "}", "[", "]", "\"", ":", ",", "0", "1", "-", ".", "e", " ", "\\", "u", "t", "q"}

RECURSIVE Strings(_)
Strings(n) ==
    IF n = 0 THEN {<<>>}
    ELSE Strings(n - 1)
           \cup {Append(s, c) : s \in {t \in Strings(n - 1) : Len(t) = n - 1}, c \in Alphabet}

Inputs == Documents \cup Strings(MaxInput)

\* partial_json_consumer: the closure owns a PartialJson::default().
partial_json_consumer(input) ==
    [input |-> input, fed |-> 0, json |-> Start, results |-> <<>>]

InitJson ==
    /\ rules = EmptyRules
    /\ syntax = "Lark"
    /\ last = [op |-> "new", name |-> "", text |-> "", key |-> NoKey, fresh |-> FALSE]
    /\ config = "none"
    /\ pc = "json"
    /\ result = IdleResult
    /\ consumer \in {partial_json_consumer(input) : input \in Inputs}

\* What a call of the closure leaves of the consumer.
Fed(consumed) ==
    [input |-> consumer.input, fed |-> consumer.fed + 1, json |-> consumed.self,
     results |-> Append(consumer.results, consumed.result)]

\* The closure is called on the next char of the input.
Feed ==
    /\ consumer.fed < Len(consumer.input)
    /\ consumer' = Fed(PartialJson_consume_char(consumer.json,
                                                consumer.input[consumer.fed + 1]))
    /\ UNCHANGED <<rules, syntax, last, config, pc, result>>

NextJson == Feed

SpecJson == InitJson /\ [][NextJson]_vars


(***************************************************************************)
(* Part 4.  The library's pure functions: AcquiesceRepr::infer_default,    *)
(* the literal lists and their serialized forms, the JSON formatter and    *)
(* the repetition operators.  A str is the sequence of its chars, a char   *)
(* a one-character string or the name of its code point.                   *)
(***************************************************************************)
MaxPieces == 3

\* char::to_lowercase: one char or, for U+0130, two.
UpperLetters == <<"A", "B", "C", "D", "E", "F", "G", "H", "I", "J", "K", "L", "M", "N", "O", "P", "Q", "R", "S", "T", "U", "V", "W", "X", "Y", "Z">>

LowerLetters == <<"a", "b", "c", "d", "e", "f", "g", "h", "i", "j", "k", "l", "m", "n", "o", "p", "q", "r", "s", "t", "u", "v", "w", "x", "y", "z">>

char_to_lowercase(c) ==
    IF \E i \in 1..Len(UpperLetters) : UpperLetters[i] = c
    THEN <<LowerLetters[CHOOSE i \in 1..Len(UpperLetters) : UpperLetters[i] = c]>>
    ELSE IF c = "U+212A" THEN <<"k">>
    ELSE IF c = "U+0130" THEN <<"i", "U+0307">>
    ELSE <<c>>

RECURSIVE to_lowercase(_)
to_lowercase(s) ==
    IF s = <<>> THEN <<>> ELSE char_to_lowercase(Head(s)) \o to_lowercase(Tail(s))

\* char::is_whitespace on the chars of a model name.
White_Space == {" ", "\t", "\n", "U+00A0"}

RECURSIVE trim_start(_)
trim_start(s) ==
    IF s # <<>> /\ Head(s) \in White_Space THEN trim_start(Tail(s)) ELSE s

RECURSIVE trim_end(_)
trim_end(s) ==
    IF s # <<>> /\ s[Len(s)] \in White_Space
    THEN trim_end(SubSeq(s, 1, Len(s) - 1))
    ELSE s

trim(s) == trim_end(trim_start(s))

\* str::contains(&str).
contains(s, pat) ==
    \E i \in 0..(Len(s) - Len(pat)) : SubSeq(s, i + 1, i + Len(pat)) = pat

InferFailed == [kind |-> "Err", err |-> "InferFailed"]

infer_default_any(model_name) ==
    IF \E m \in {<<"k", "i", "m", "i">>, <<"k", "2">>} :
           contains(to_lowercase(trim(model_name)), m)
    THEN [kind |-> "Ok", config |-> kimi_k2]
    ELSE InferFailed

infer_default(model_name) ==
    IF \A m \in {<<"k", "i", "m", "i">>, <<"k", "2">>} :
           contains(to_lowercase(trim(model_name)), m)
    THEN [kind |-> "Ok", config |-> kimi_k2]
    ELSE InferFailed

\* The model names handed to infer_default: up to MaxPieces pieces in a row,
\* and the names of tests/render.rs.
NamePieces ==
    {<<"k", "i", "m", "i">>,
     <<"K", "I", "M", "I">>,
     <<"K", "i", "m", "i">>,
     <<"k", "2">>,
     <<"K", "2">>,
     <<"k", "i", "m">>,
     <<"i">>,
     <<"2">>,
     <<" ">>,
     <<"-">>,
     <<"q", "w", "e", "n">>,
     <<"U+212A">>,
     <<"U+0130">>}

RECURSIVE Flatten(_)
Flatten(pieces) ==
    IF pieces = <<>> THEN <<>> ELSE Head(pieces) \o Flatten(Tail(pieces))

TEST_MODELS ==
    {<<"m", "o", "o", "n", "s", "h", "o", "t", "a", "i", "/", "K", "i", "m", "i", "-", "K", "2", "-", "I", "n", "s", "t", "r", "u", "c", "t", "-", "0", "9", "0", "5">>,
     <<"m", "o", "o", "n", "s", "h", "o", "t", "a", "i", "/", "K", "i", "m", "i", "-", "K", "2", "-", "T", "h", "i", "n", "k", "i", "n", "g">>}

ModelNames ==
    TEST_MODELS
    \cup {Flatten(pieces) : pieces \in UNION {[1..n -> NamePieces] : n \in 0..MaxPieces}}

(***************************************************************************)
(* The literal lists of src/src/lib.rs and their serde forms.  A JSON      *)
(* value is what serde_json hands to the derived (de)serializers; an       *)
(* Option is the empty or the one-element sequence.                        *)
(***************************************************************************)
MaxList == 2

JStr(s) == [j |-> "string", s |-> s]

JNum(n) == [j |-> "number", n |-> n]

JNull == [j |-> "null"]

JArr(items) == [j |-> "array", items |-> items]

\* An object is its entries <<key, value>> in order.
JObj(fields) == [j |-> "object", fields |-> fields]

De(v) == [ok |-> TRUE, v |-> v]

DeError == [ok |-> FALSE]

\* enum LiteralOrWild and enum WildType (rename_all = "snake_case").
LiteralOrWild_Literal(s) == [t |-> "Literal", s |-> s]

Wild(wild, bounded) == [t |-> "Wild", wild |-> wild, bounded |-> bounded]

WildTypes == {"numeric", "any"}

\* #[derive(Serialize)] #[serde(untagged)] on LiteralOrWild; bounded is
\* skipped when it is None.
LiteralOrWild_serialize(self) ==
    IF self.t = "Literal" THEN JStr(self.s)
    ELSE JObj(<<<<"wild", JStr(self.wild)>>>>
              \o (IF self.bounded = <<>> THEN <<>>
                  ELSE <<<<"bounded", JNum(self.bounded[1])>>>>))

WildType_deserialize(json) ==
    IF json.j = "string" /\ json.s \in WildTypes THEN De(json.s) ELSE DeError

Option_usize_deserialize(json) ==
    IF json.j = "null" THEN De(<<>>)
    ELSE IF json.j = "number" /\ json.n >= 0 THEN De(<<json.n>>)
    ELSE DeError

FieldIndexes(fields, key) == {i \in 1..Len(fields) : fields[i][1] = key}

FieldValue(fields, key) == fields[CHOOSE i \in FieldIndexes(fields, key) : TRUE][2]

\* The derived visitor of the struct variant Wild: visit_map (a missing
\* Option is None, a repeated field an error, other fields ignored) and
\* visit_seq (the fields in declaration order, none missing, none left).
Wild_visit_map(fields) ==
    IF Cardinality(FieldIndexes(fields, "wild")) # 1 THEN DeError
    ELSE IF Cardinality(FieldIndexes(fields, "bounded")) > 1 THEN DeError
    ELSE IF ~WildType_deserialize(FieldValue(fields, "wild")).ok THEN DeError
    ELSE IF FieldIndexes(fields, "bounded") = {}
    THEN De(Wild(FieldValue(fields, "wild").s, <<>>))
    ELSE IF ~Option_usize_deserialize(FieldValue(fields, "bounded")).ok THEN DeError
    ELSE De(Wild(FieldValue(fields, "wild").s,
                 Option_usize_deserialize(FieldValue(fields, "bounded")).v))

Wild_visit_seq(items) ==
    IF Len(items) # 2 THEN DeError
    ELSE IF ~WildType_deserialize(items[1]).ok THEN DeError
    ELSE IF ~Option_usize_deserialize(items[2]).ok THEN DeError
    ELSE De(Wild(items[1].s, Option_usize_deserialize(items[2]).v))

\* Untagged: the first variant that deserializes.
LiteralOrWild_deserialize(json) ==
    IF json.j = "string" THEN De(LiteralOrWild_Literal(json.s))
    ELSE IF json.j = "object" THEN Wild_visit_map(json.fields)
    ELSE IF json.j = "array" THEN Wild_visit_seq(json.items)
    ELSE DeError

\* enum OrderedLiteralsRepr and enum DistinctLiteralsRepr.
Repr_String(s) == [t |-> "String", s |-> s]

Repr_Array(arr) == [t |-> "Array", arr |-> arr]

OrderedLiteralsRepr_serialize(self) ==
    IF self.t = "String" THEN LiteralOrWild_serialize(self.s)
    ELSE JArr([i \in 1..Len(self.arr) |-> LiteralOrWild_serialize(self.arr[i])])

OrderedLiteralsRepr_deserialize(json) ==
    IF LiteralOrWild_deserialize(json).ok
    THEN De(Repr_String(LiteralOrWild_deserialize(json).v))
    ELSE IF json.j = "array"
            /\ \A i \in 1..Len(json.items) : LiteralOrWild_deserialize(json.items[i]).ok
    THEN De(Repr_Array([i \in 1..Len(json.items) |->
                            LiteralOrWild_deserialize(json.items[i]).v]))
    ELSE DeError

\* impl From<OrderedLiteralsRepr> for OrderedLiterals.
OrderedLiterals_from(repr) ==
    IF repr.t = "String" THEN <<repr.s>> ELSE repr.arr

OrderedLiteralsRepr_from_array(arr) == Repr_Array(arr)

\* impl From<OrderedLiterals> for OrderedLiteralsRepr.
OrderedLiteralsRepr_from(arr) ==
    IF Len(arr) = 1 THEN Repr_String(arr[1]) ELSE Repr_Array(arr)

\* serde(from = "OrderedLiteralsRepr", into = "OrderedLiteralsRepr").
OrderedLiterals_serialize(self) ==
    OrderedLiteralsRepr_serialize(OrderedLiteralsRepr_from(self))

OrderedLiterals_deserialize(json) ==
    IF OrderedLiteralsRepr_deserialize(json).ok
    THEN De(OrderedLiterals_from(OrderedLiteralsRepr_deserialize(json).v))
    ELSE DeError

DistinctLiteralsRepr_serialize(self) ==
    IF self.t = "String" THEN JStr(self.s)
    ELSE JArr([i \in 1..Len(self.arr) |-> JStr(self.arr[i])])

DistinctLiteralsRepr_deserialize(json) ==
    IF json.j = "string" THEN De(Repr_String(json.s))
    ELSE IF json.j = "array" /\ \A i \in 1..Len(json.items) : json.items[i].j = "string"
    THEN De(Repr_Array([i \in 1..Len(json.items) |-> json.items[i].s]))
    ELSE DeError

\* impl From<DistinctLiteralsRepr> for DistinctLiterals: a HashSet.
DistinctLiterals_from(repr) ==
    IF repr.t = "String" THEN {repr.s} ELSE {repr.arr[i] : i \in 1..Len(repr.arr)}

\* impl From<DistinctLiterals> for DistinctLiteralsRepr; into_iter is the
\* order in which the HashSet yields its elements.
DistinctLiteralsRepr_from(set, into_iter) ==
    IF Cardinality(set) = 1 THEN Repr_String(into_iter[1]) ELSE Repr_Array(into_iter)

DistinctLiterals_serialize(self, into_iter) ==
    DistinctLiteralsRepr_serialize(DistinctLiteralsRepr_from(self, into_iter))

DistinctLiterals_deserialize(json) ==
    IF DistinctLiteralsRepr_deserialize(json).ok
    THEN De(DistinctLiterals_from(DistinctLiteralsRepr_deserialize(json).v))
    ELSE DeError

\* The lists handed to the serializers: up to MaxList elements.
ListElements ==
    {LiteralOrWild_Literal("<think>"), LiteralOrWild_Literal("any"),
     LiteralOrWild_Literal("numeric"), Wild("any", <<>>), Wild("numeric", <<>>),
     Wild("any", <<0>>), Wild("numeric", <<2>>)}

OrderedLists == UNION {[1..n -> ListElements] : n \in 0..MaxList}

SetElements == {"name", "arguments", "parameters", "user"}

DistinctSets == {set \in SUBSET SetElements : Cardinality(set) <= MaxList}

IterationOrders(set) ==
    {order \in [1..Cardinality(set) -> set] : \A e \in set : \E i \in DOMAIN order : order[i] = e}

OrderedLiteralsRoundTrip ==
    /\ pc = "lib"
    /\ \E x \in OrderedLists :
           result' = [kind |-> "lib", op |-> "ordered_literals", x |-> x,
                      json |-> OrderedLiterals_serialize(x),
                      out |-> OrderedLiterals_deserialize(OrderedLiterals_serialize(x))]
    /\ pc' = "done"
    /\ UNCHANGED <<rules, syntax, last, config, consumer>>

DistinctLiteralsRoundTrip ==
    /\ pc = "lib"
    /\ \E x \in DistinctSets : \E into_iter \in IterationOrders(x) :
           result' = [kind |-> "lib", op |-> "distinct_literals", x |-> x,
                      json |-> DistinctLiterals_serialize(x, into_iter),
                      out |-> DistinctLiterals_deserialize(
                                  DistinctLiterals_serialize(x, into_iter))]
    /\ pc' = "done"
    /\ UNCHANGED <<rules, syntax, last, config, consumer>>

(***************************************************************************)
(* JsonFormatter of src/src/json.rs.  The text written is the sequence of  *)
(* its chars; a Value::Object is its entries in the order its Map yields   *)
(* them, a JSON string the sequence of its chars.                          *)
(***************************************************************************)
MaxEntries == 2

JBool(b) == [j |-> "bool", b |-> b]

JsonFormatter(indent_width, key_separator, item_separator, sort_keys, ensure_ascii, escape_solidus) ==
    [indent_width |-> indent_width, key_separator |-> key_separator,
     item_separator |-> item_separator, sort_keys |-> sort_keys,
     ensure_ascii |-> ensure_ascii, escape_solidus |-> escape_solidus]

JsonFormatter_default == JsonFormatter(<<>>, <<":", " ">>, <<",", " ">>, FALSE, FALSE, FALSE)

JsonFormatter_pretty(indent_width) ==
    [JsonFormatter_default EXCEPT !.indent_width = <<indent_width>>, !.item_separator = <<",">>]

JsonFormatter_compact ==
    [JsonFormatter_default EXCEPT !.key_separator = <<":">>, !.item_separator = <<",">>]

\* c as u32 and c.is_ascii().
NonAsciiCodes == {233, 128512}

CodeOf(c) ==
    IF \E i \in 1..Len(CodePoints) : CodePoints[i][1] = c
    THEN CodePoints[CHOOSE i \in 1..Len(CodePoints) : CodePoints[i][1] = c][2]
    ELSE CHOOSE n \in ControlCodes \cup NonAsciiCodes : CharOf(n) = c

is_ascii(c) == CodeOf(c) < 128

\* char::encode_utf16.
encode_utf16(code_point) ==
    IF code_point < 65536 THEN <<code_point>>
    ELSE <<55296 + ((code_point - 65536) \div 1024), 56320 + ((code_point - 65536) % 1024)>>

RECURSIVE escape_units(_)
escape_units(units) ==
    IF units = <<>> THEN <<>>
    ELSE <<"\\", "u">> \o LowerHex4(Head(units)) \o escape_units(Tail(units))

\* The match of JsonStringFormatter::fmt on a char, its arms in order.
JsonStringFormatter_fmt_char(c, format) ==
    CASE c = "\"" -> <<"\\", "\"">>
      [] c = "\\" -> <<"\\", "\\">>
      [] c = "/" /\ format.escape_solidus -> <<"\\", "/">>
      [] c = CharOf(8) -> <<"\\", "b">>
      [] c = "\f" -> <<"\\", "f">>
      [] c = "\n" -> <<"\\", "n">>
      [] c = "\r" -> <<"\\", "r">>
      [] c = "\t" -> <<"\\", "t">>
      [] OTHER ->
           IF is_control(c) THEN <<"\\", "u">> \o LowerHex4(CodeOf(c))
           ELSE IF ~is_ascii(c) /\ format.ensure_ascii
           THEN escape_units(encode_utf16(CodeOf(c)))
           ELSE <<c>>

RECURSIVE JsonStringFormatter_chars(_, _)
JsonStringFormatter_chars(value, format) ==
    IF value = <<>> THEN <<>>
    ELSE JsonStringFormatter_fmt_char(Head(value), format)
           \o JsonStringFormatter_chars(Tail(value), format)

JsonStringFormatter_fmt(value, format) ==
    <<"\"">> \o JsonStringFormatter_chars(value, format) \o <<"\"">>

\* Padding: "{:width$}" of the empty string.
Padding(width) == [i \in 1..width |-> " "]

\* JsonFormatterState::whitespace.
whitespace(format, depth) ==
    IF format.indent_width # <<>>
    THEN [newline |-> <<"\n">>,
          inner |-> Padding(format.indent_width[1] * (depth + 1)),
          outer |-> Padding(format.indent_width[1] * depth)]
    ELSE [newline |-> <<>>, inner |-> Padding(0), outer |-> Padding(0)]

\* Ord for str: the bytes, which for these chars are the code points.
str_lt(a, b) ==
    \E i \in 1..(Len(a) + 1) :
        /\ i <= Len(b)
        /\ \A k \in 1..(i - 1) : a[k] = b[k]
        /\ i = Len(a) + 1 \/ CodeOf(a[i]) < CodeOf(b[i])

\* Itertools::sorted_by_key(|(key, _)| key.as_str()): a stable sort.
sort_insert(sorted, entry) ==
    SubSeq(sorted, 1, Cardinality({i \in 1..Len(sorted) : ~str_lt(entry[1], sorted[i][1])}))
      \o <<entry>>
      \o SubSeq(sorted, Cardinality({i \in 1..Len(sorted) : ~str_lt(entry[1], sorted[i][1])}) + 1,
                Len(sorted))

unsorted(entries) == entries

RECURSIVE sorted_by_key(_)
sorted_by_key(entries) ==
    IF entries = <<>> THEN <<>>
    ELSE sort_insert(sorted_by_key(SubSeq(entries, 1, Len(entries) - 1)), entries[Len(entries)])

\* Display for serde_json::Value on null, a bool, a number.
RECURSIVE Decimal(_)
Decimal(n) ==
    IF n < 10 THEN <<ToString(n)>> ELSE Decimal(n \div 10) \o <<ToString(n % 10)>>

Value_fmt(value) ==
    CASE value.j = "null" -> <<"n", "u", "l", "l">>
      [] value.j = "bool" ->
           IF value.b THEN <<"t", "r", "u", "e">> ELSE <<"f", "a", "l", "s", "e">>
      [] value.j = "number" -> Decimal(value.n)

RECURSIVE JsonFormatterState_fmt(_, _, _)

\* format_with: the separator between the items, each item by the closure.
RECURSIVE format_entries(_, _, _, _)
format_entries(entries, format, depth, i) ==
    IF i > Len(entries) THEN <<>>
    ELSE (IF i > 1 THEN format.item_separator ELSE <<>>)
           \o whitespace(format, depth).newline
           \o whitespace(format, depth).inner
           \o JsonStringFormatter_fmt(entries[i][1], format)
           \o format.key_separator
           \o JsonFormatterState_fmt(entries[i][2], format, depth + 1)
           \o format_entries(entries, format, depth, i + 1)

RECURSIVE format_elements(_, _, _, _)
format_elements(elements, format, depth, i) ==
    IF i > Len(elements) THEN <<>>
    ELSE (IF i > 1 THEN format.item_separator ELSE <<>>)
           \o whitespace(format, depth).newline
           \o whitespace(format, depth).inner
           \o JsonFormatterState_fmt(elements[i], format, depth + 1)
           \o format_elements(elements, format, depth, i + 1)

\* impl Display for JsonFormatterState.
JsonFormatterState_fmt(value, format, depth) ==
    CASE value.j = "string" -> JsonStringFormatter_fmt(value.s, format)
      [] value.j = "object" ->
           IF value.fields = <<>> THEN <<"{", "}">>
           ELSE <<"{">>
                  \o format_entries(IF format.sort_keys THEN sorted_by_key(value.fields)
                                    ELSE value.fields, format, depth, 1)
                  \o whitespace(format, depth).newline
                  \o whitespace(format, depth).outer
                  \o <<"}">>
      [] value.j = "array" ->
           IF value.items = <<>> THEN <<"[", "]">>
           ELSE <<"[">>
                  \o format_elements(value.items, format, depth, 1)
                  \o whitespace(format, depth).newline
                  \o whitespace(format, depth).outer
                  \o <<"]">>
      [] OTHER -> Value_fmt(value)

\* JsonFormatter::serialize on a Value.
JsonFormatter_serialize(self, value) == JsonFormatterState_fmt(value, self, 0)

\* The values formatted: objects and arrays of up to MaxEntries entries,
\* over scalars and over a few nested values, objects with distinct keys.
FormatKeys == {<<"b">>, <<"a">>, <<"B">>, <<"a", "b">>}

Scalars == {JNum(1), JNum(20), JStr(<<"b", "\"", "a">>), JNull, JBool(TRUE)}

NestedValues ==
    {JNum(1),
     JObj(<<<<<<"b">>, JNum(1)>>, <<<<"a">>, JNum(2)>>>>),
     JArr(<<JObj(<<<<<<"b">>, JNum(1)>>, <<<<"B">>, JNum(2)>>>>), JNum(1)>>),
     JObj(<<<<<<"b">>, JObj(<<<<<<"a", "b">>, JNull>>, <<<<"a">>, JArr(<<>>)>>>>)>>,
            <<<<"a">>, JStr(<<"b">>)>>>>)}

EntryLists(values) ==
    {entries \in UNION {[1..n -> FormatKeys \X values] : n \in 0..MaxEntries} :
        \A i, k \in DOMAIN entries : i # k => entries[i][1] # entries[k][1]}

FormatValues ==
    Scalars
      \cup {JObj(entries) : entries \in EntryLists(NestedValues)}
      \cup {JArr(items) : items \in UNION {[1..n -> NestedValues] : n \in 0..MaxEntries}}

Formatters ==
    {[format EXCEPT !.sort_keys = sort_keys] :
        format \in {JsonFormatter_default, JsonFormatter_pretty(1), JsonFormatter_compact},
        sort_keys \in BOOLEAN}

Serialize ==
    /\ pc = "lib"
    /\ \E self \in Formatters : \E value \in FormatValues :
           result' = [kind |-> "lib", op |-> "serialize", self |-> self, value |-> value,
                      out |-> JsonFormatter_serialize(self, value)]
    /\ pc' = "done"
    /\ UNCHANGED <<rules, syntax, last, config, consumer>>

(***************************************************************************)
(* Rules::insert_primitive on the GBNF tables that earlier requests leave: *)
(* up to MaxRequests primitives already injected, with or without a rule   *)
(* of the envelope.                                                        *)
(***************************************************************************)
MaxRequests == 2

RECURSIVE insert_primitives(_, _)
insert_primitives(self, names) ==
    IF names = <<>> THEN self
    ELSE insert_primitives(insert_primitive(self, Head(names)), Tail(names))

\* The primitives whose dependencies are never themselves in progress.
AcyclicPrimitives == PrimitiveNames \ {"value", "object", "array"}

EarlierTables ==
    {insert_primitives(self, names).rules :
        self \in {Rules_new("GBNF"),
                  insert_rule(Rules_new("GBNF"), "tool_choice", Raw("\"auto\"", <<>>))},
        names \in UNION {[1..n -> AcyclicPrimitives] : n \in 0..MaxRequests}}

InsertPrimitive ==
    /\ pc = "lib"
    /\ \E table \in EarlierTables : \E name \in PrimitiveNames :
           result' = [kind |-> "lib", op |-> "insert_primitive", name |-> name,
                      table |-> table,
                      out |-> insert_primitive([Rules_new("GBNF") EXCEPT !.rules = table],
                                               name)]
    /\ pc' = "done"
    /\ UNCHANGED <<rules, syntax, last, config, consumer>>

(***************************************************************************)
(* Rules::insert_repetition, build_repetition_str and build_repetition_sep *)
(* on bounds 0 <= min <= max <= MaxCount; None is -1.                      *)
(***************************************************************************)
MaxCount == 3

RepeatedItems == {RuleKey("item", 0), RuleKey("tool_choice", 1)}

Repetition ==
    /\ pc = "lib"
    /\ \E syn \in Syntaxes : \E item \in RepeatedItems : \E min \in 0..MaxCount :
         \E max \in {-1} \cup min..MaxCount :
           result' = [kind |-> "lib", op |-> "repetition", item |-> Display(item),
                      min |-> min, max |-> max, sep |-> CommaSpace,
                      rule |-> insert_repetition(Rules_new(syn), "tool_choices", item,
                                                 min, max),
                      str |-> build_repetition_str(Display(item), min, max),
                      with_sep |-> build_repetition_sep(Display(item), min, max, CommaSpace)]
    /\ pc' = "done"
    /\ UNCHANGED <<rules, syntax, last, config, consumer>>

(***************************************************************************)
(* Rules::insert_lexeme on a Lexeme::Text: the text is the String of its   *)
(* chars, up to MaxText of them.                                           *)
(***************************************************************************)
MaxText == 2

TextChars == {"a", "<", "\"", "\\"}

LexemeTexts == UNION {[1..n -> TextChars] : n \in 0..MaxText}

InsertTextLexeme ==
    /\ pc = "lib"
    /\ \E syn \in Syntaxes : \E text \in LexemeTexts :
           result' = [kind |-> "lib", op |-> "insert_lexeme", syn |-> syn, text |-> text,
                      out |-> insert_lexeme(Rules_new(syn), "sequence",
                                            LexText(Join(text, "")))]
    /\ pc' = "done"
    /\ UNCHANGED <<rules, syntax, last, config, consumer>>

(***************************************************************************)
(* partial_literal_consumer (src/src/utils/partial_literal.rs): the        *)
(* closure owns the iterator over the literals and curr, the element taken *)
(* from it at construction; an Option is <<>> or <<value>>.                *)
(***************************************************************************)
Panicked == [kind |-> "panic"]

partial_literal_consumer(literals) ==
    [curr |-> IF literals = <<>> THEN <<>> ELSE <<Head(literals)>>,
     literals_iter |-> IF literals = <<>> THEN <<>> ELSE Tail(literals)]

\* One call of the closure: curr.take().or_else(|| literals_iter.next()) is
\* the element of the call; with none left the char is handed back, and
\* with one the body is todo!().
LiteralConsumer_call(self, c) ==
    IF self.curr # <<>>
    THEN Consume([curr |-> <<>>, literals_iter |-> self.literals_iter], Panicked)
    ELSE IF self.literals_iter # <<>>
    THEN Consume([curr |-> <<>>, literals_iter |-> Tail(self.literals_iter)], Panicked)
    ELSE Consume(self, Unconsumed(c))

\* The results of the calls on the chars of a stream, up to a panic.
RECURSIVE LiteralConsumer_feed(_, _, _)
LiteralConsumer_feed(self, stream, results) ==
    IF stream = <<>> THEN results
    ELSE IF LiteralConsumer_call(self, Head(stream)).result = Panicked
    THEN Append(results, Panicked)
    ELSE LiteralConsumer_feed(LiteralConsumer_call(self, Head(stream)).self, Tail(stream),
             Append(results, LiteralConsumer_call(self, Head(stream)).result))

StreamChars == {"<", "a", "5"}

Streams == UNION {[1..n -> StreamChars] : n \in 1..MaxText}

LiteralConsume ==
    /\ pc = "lib"
    /\ \E literals \in OrderedLists : \E stream \in Streams :
           result' = [kind |-> "lib", op |-> "partial_literal_consumer",
                      literals |-> literals, stream |-> stream,
                      out |-> LiteralConsumer_feed(partial_literal_consumer(literals),
                                                   stream, <<>>)]
    /\ pc' = "done"
    /\ UNCHANGED <<rules, syntax, last, config, consumer>>

(***************************************************************************)
(* One compilation that inserts rules of distinct bodies under one logical *)
(* name and then a rule under another: the calls of Rules::insert_rule on  *)
(* one Rules value.                                                        *)
(***************************************************************************)
MaxBodies == 11

KeyNames == {"a", "a1", "b"}

\* The n rules "1" space, ..., "n" space under the name key.
RECURSIVE insert_bodies(_, _, _)
insert_bodies(self, key, n) ==
    IF n = 0 THEN self
    ELSE insert_rule(insert_bodies(self, key, n - 1), key,
                     Raw(gbnf_string_literal(ToString(n)) \o " space", <<"space">>))

InsertRules ==
    /\ pc = "lib"
    /\ \E syn \in Syntaxes : \E key, other \in KeyNames : \E n \in 0..MaxBodies :
           result' = [kind |-> "lib", op |-> "insert_rule", syn |-> syn,
                      key |-> key, other |-> other, n |-> n,
                      out |-> insert_rule(insert_bodies(Rules_new(syn), key, n), other,
                                          Raw("\"true\" space", <<"space">>))]
    /\ pc' = "done"
    /\ UNCHANGED <<rules, syntax, last, config, consumer>>

InitLib ==
    /\ rules = EmptyRules
    /\ syntax = "Lark"
    /\ last = [op |-> "new", name |-> "", text |-> "", key |-> NoKey, fresh |-> FALSE]
    /\ config = "none"
    /\ pc = "lib"
    /\ result = IdleResult
    /\ consumer = NoConsumer

InferDefault ==
    /\ pc = "lib"
    /\ \E model_name \in ModelNames :
           result' = [kind |-> "lib", op |-> "infer_default", model_name |-> model_name,
                      out |-> infer_default(model_name)]
    /\ pc' = "done"
    /\ UNCHANGED <<rules, syntax, last, config, consumer>>

NextLib ==
    \/ InferDefault
    \/ OrderedLiteralsRoundTrip
    \/ DistinctLiteralsRoundTrip
    \/ Serialize
    \/ InsertPrimitive
    \/ Repetition
    \/ InsertTextLexeme
    \/ LiteralConsume
    \/ InsertRules

SpecLib == InitLib /\ [][NextLib]_vars

(***************************************************************************)
(* Reading the result of a render call and the grammar it carries.         *)
(***************************************************************************)
Rendered == pc \in {"returned", "aborted"} /\ result.op = "render"

HasGrammar == Rendered /\ result.kind = "ok" /\ result.has_grammar

\* The symbols that head a rule line of the resolved grammar.
DefinedSymbols(res) == { Display(k) : k \in DOMAIN res.table }

BodiesOf(res, sym) ==
    { res.table[k] : k \in { x \in DOMAIN res.table : Display(x) = sym } }

RefsOf(res, syms) ==
    UNION { Range(res.table[k].refs) :
              k \in { x \in DOMAIN res.table : Display(x) \in syms } }

\* The symbols referenced from syms, transitively.
RECURSIVE Reachable(_, _)
Reachable(res, syms) ==
    LET next == syms \cup RefsOf(res, syms) IN
    IF next = syms THEN syms ELSE Reachable(res, next)

Referenced(res) == Reachable(res, Range(res.root.refs))

Fuel(res) == Cardinality(DOMAIN res.table) + 1

\* sym derives the empty string.
RECURSIVE Nullable(_, _, _)
Nullable(res, sym, fuel) ==
    /\ fuel > 0
    /\ \E b \in BodiesOf(res, sym) :
         CASE b.kind = "sequence" ->
                \A i \in 1..Len(b.refs) : Nullable(res, b.refs[i], fuel - 1)
           [] b.kind = "alternative" ->
                \/ b.refs = <<>>
                \/ \E i \in 1..Len(b.refs) : Nullable(res, b.refs[i], fuel - 1)
           [] b.kind = "repetition" ->
                b.lo = 0 \/ Nullable(res, b.refs[1], fuel - 1)
           [] b.kind = "literal" -> b.text = Quote \o Quote
           [] b.kind = "raw" -> b.text = ""
           [] OTHER -> FALSE

\* How many tool calls (derivations of the rule ToolCall::render returned) a
\* derivation of sym may hold: <<least, most>>, most = -1 for no upper bound.
Unbounded == 0 - 1

AddMost(a, b) == IF a = Unbounded \/ b = Unbounded THEN Unbounded ELSE a + b

MulMost(n, a) ==
    IF n = 0 \/ a = 0 THEN 0
    ELSE IF n = Unbounded \/ a = Unbounded THEN Unbounded ELSE n * a

MaxMost(a, b) ==
    IF a = Unbounded \/ b = Unbounded THEN Unbounded ELSE IF a > b THEN a ELSE b

RECURSIVE CallRange(_, _, _)
RECURSIVE SequenceRange(_, _, _, _)
RECURSIVE AlternativeRange(_, _, _, _)

CallRange(res, sym, fuel) ==
    IF sym = Display(res.call_rule) THEN <<1, 1>>
    ELSE IF fuel = 0 \/ BodiesOf(res, sym) = {} THEN <<0, 0>>
    ELSE LET b == CHOOSE x \in BodiesOf(res, sym) : TRUE IN
         CASE b.kind = "sequence" -> SequenceRange(res, b.refs, 1, fuel - 1)
           [] b.kind = "alternative" /\ b.refs # <<>> ->
                AlternativeRange(res, b.refs, 1, fuel - 1)
           [] b.kind = "repetition" ->
                LET one == CallRange(res, b.refs[1], fuel - 1) IN
                <<b.lo * one[1], MulMost(b.hi, one[2])>>
           [] OTHER -> <<0, 0>>

SequenceRange(res, refs, i, fuel) ==
    IF i > Len(refs) THEN <<0, 0>>
    ELSE LET one == CallRange(res, refs[i], fuel)
             rest == SequenceRange(res, refs, i + 1, fuel)
         IN <<one[1] + rest[1], AddMost(one[2], rest[2])>>

AlternativeRange(res, refs, i, fuel) ==
    LET one == CallRange(res, refs[i], fuel) IN
    IF i = Len(refs) THEN one
    ELSE LET rest == AlternativeRange(res, refs, i + 1, fuel) IN
         <<IF one[1] < rest[1] THEN one[1] ELSE rest[1], MaxMost(one[2], rest[2])>>

\* The envelope has a tool_calls shape.
HasToolCalls(self) == self.type = "components" /\ self.tool_calls # <<>>

IsSection(self) == HasToolCalls(self) /\ self.tool_calls[1].type = "tool_calls_section"

(***************************************************************************)
(* The claims.                                                             *)
(***************************************************************************)

\* C1 (as stated): whenever render returns a grammar, every symbol referenced
\* from the root body, transitively, heads a rule line of the grammar.
C1_GrammarClosure ==
    HasGrammar => Referenced(result) \subseteq DefinedSymbols(result)

\* C2: insert_rule(name, body) returns an existing key of that name holding
\* an equal body and leaves the table unchanged when there is one; otherwise
\* it allocates the smallest unused disambiguator of the name and adds only
\* that entry; no call ever overwrites or removes an existing entry.
C2_Interning ==
    [][ /\ \A k \in DOMAIN rules : k \in DOMAIN rules' /\ rules'[k] = rules[k]
        /\ last'.op = "rule" =>
             LET hits == { k \in DOMAIN rules :
                             k[1] = last'.name /\ rules[k].text = last'.text }
                 key == last'.key
             IN /\ hits # {} => rules' = rules /\ key \in hits
                /\ hits = {} =>
                     /\ key[1] = last'.name
                     /\ key \notin DOMAIN rules
                     /\ \A c \in 0..(key[2] - 1) : RuleKey(key[1], c) \in DOMAIN rules
                     /\ DOMAIN rules' = DOMAIN rules \cup {key}
                     /\ rules'[key].text = last'.text
      ]_vars

\* C2 witness: a call found its body under a disambiguator above 0.
C2_Witness == last.op = "rule" /\ ~last.fresh /\ last.key[2] >= 1

\* C3 (amended): no two distinct keys of the same logical name hold equal
\* bodies; the interner compares bodies within one logical name only.
C3_OneKeyPerNameAndBody ==
    \A k1 \in DOMAIN rules, k2 \in DOMAIN rules :
        k1[1] = k2[1] /\ rules[k1].text = rules[k2].text => k1 = k2

\* C3 (as stated): no two distinct keys hold equal bodies.
C3_OneKeyPerBody ==
    \A k1 \in DOMAIN rules, k2 \in DOMAIN rules :
        rules[k1].text = rules[k2].text => k1 = k2

\* C3 witness: a body was inserted again under its name and collapsed, while
\* the name holds two keys with different bodies.
C3_Witness ==
    /\ last.op = "rule" /\ ~last.fresh
    /\ \E k \in DOMAIN rules : k[1] = last.key[1] /\ k # last.key

\* The inputs of the render call behind the result.
CallTools == Tools(result.call.tools, TRUE)

CallHasTools == result.call.tools # <<>>

CallChoice == result.call.tool_choice

TemplateRenders(tools) == ChatTemplate_render(result.call.messages, tools).st = "ok"

NonEmptyGrammar ==
    result.has_grammar /\ result.grammar # <<>> /\ result.grammar[1] # ""

\* C4 (amended): on a Components envelope with a tool_calls shape, a render
\* call with at least one tool and tool_choice other than None that returns
\* success returns a grammar that is present and non-empty.
C4_GrammarPresent ==
    /\ Rendered /\ HasToolCalls(config)
    /\ CallHasTools /\ CallChoice.type # "none"
    /\ result.kind = "ok"
    => NonEmptyGrammar

\* C4 (as stated): every render call with at least one tool and tool_choice
\* other than None, on any envelope, returns a present, non-empty grammar.
C4_GrammarPresentAlways ==
    Rendered /\ CallHasTools /\ CallChoice.type # "none"
    => result.kind = "ok" /\ NonEmptyGrammar

\* C4 witness: such a call on a section envelope returned a grammar.
C4_Witness ==
    /\ Rendered /\ IsSection(config)
    /\ CallHasTools /\ CallChoice.type = "auto"
    /\ result.kind = "ok" /\ NonEmptyGrammar

\* The call meets one of the short-circuit conditions of a Components envelope.
ShortCircuitCase ==
    /\ Rendered /\ config.type = "components"
    /\ \/ ~CallHasTools
       \/ CallChoice.type = "none"
       \/ config.tool_calls = <<>>

\* C5 (amended): in a short-circuit case no grammar is returned and no rule is
\* built; the call returns success with the prompt of the messages rendered
\* without tools, unless the chat template fails on the messages, and then it
\* returns the Template error.
C5_ShortCircuit ==
    ShortCircuitCase =>
        /\ ~result.has_grammar /\ ~result.built
        /\ IF TemplateRenders(<<>>)
           THEN result.kind = "ok"
                /\ result.prompt = Prompt(result.call.messages, <<>>)
           ELSE result.kind = "err" /\ result.err = "Template"

\* C5 (as stated): in a short-circuit case render returns success with the
\* grammar absent, and no rule is built.
C5_ShortCircuitSuccess ==
    ShortCircuitCase =>
        result.kind = "ok" /\ ~result.has_grammar /\ ~result.built

\* C5 witness: tool_choice None with tools on an envelope that has a
\* tool_calls shape returned success without a grammar.
C5_Witness ==
    /\ ShortCircuitCase /\ HasToolCalls(config)
    /\ CallHasTools /\ CallChoice.type = "none"
    /\ result.kind = "ok" /\ ~result.has_grammar

\* C6: on a Harmony envelope render returns success with a prompt (the empty
\* string), and no grammar, whatever the inputs; parser() returns None.
C6_Harmony ==
    config = Harmony /\ pc \in {"returned", "aborted"} =>
        /\ result.op = "render" =>
             /\ result.kind = "ok"
             /\ result.prompt = EmptyPrompt
             /\ ~result.has_grammar /\ ~result.built
        /\ result.op = "parser" => result.kind = "None"

\* C6 witness: render on Harmony returned with an invalid tool, a function
\* choice that names no tool, and messages the template engine rejects.
C6_Witness ==
    /\ config = Harmony /\ Rendered
    /\ "bad" \in Range(result.call.tools)
    /\ CallChoice = Function("nope")
    /\ result.call.messages = "raise"
    /\ result.call.grammar_syntax = "GBNF"

\* The tool_choice is Function(name) and a tool of the call has that name.
NamesATool ==
    CallChoice.type = "function"
    /\ \E i \in 1..Len(CallTools) : CallTools[i].name = CallChoice.name

\* C7 (amended): on a Components envelope with a tool_calls shape, when the
\* tool list is non-empty, every tool validates and the chat template
\* renders, a Function(name) naming no tool makes render return the error
\* ChatToolChoice with no grammar and no rule built; and whenever a tool of
\* that name exists the error ChatToolChoice is not returned.
C7_UnknownFunction ==
    Rendered /\ CallChoice.type = "function" =>
        /\ /\ HasToolCalls(config) /\ CallHasTools
           /\ ValidateTools(CallTools).st = "ok"
           /\ TemplateRenders(ValidateTools(CallTools).tools)
           /\ ~NamesATool
           => /\ result.kind = "err" /\ result.err = "ChatToolChoice"
              /\ ~result.has_grammar /\ ~result.built
        /\ NamesATool => result.err # "ChatToolChoice"

\* C7 (as stated): Function(name) naming no validated tool makes render
\* return the error ChatToolChoice and no grammar.
C7_UnknownFunctionAlways ==
    Rendered /\ CallChoice.type = "function" /\ ~NamesATool =>
        result.kind = "err" /\ result.err = "ChatToolChoice" /\ ~result.has_grammar

\* C7 witness: the error ChatToolChoice was returned for a non-empty tool list.
C7_Witness ==
    /\ Rendered /\ CallChoice = Function("nope") /\ CallHasTools
    /\ result.kind = "err" /\ result.err = "ChatToolChoice"

\* The tool-calls rule of a section grammar: prefix, calls, suffix?.
SectionBody == CHOOSE b \in BodiesOf(result, Display(result.tools_rule)) : TRUE

CallsOf(sym) == CallRange(result, sym, Fuel(result))

\* The section rule is the sequence prefix, calls, suffix?, and neither the
\* prefix nor the suffix holds a tool call.
SectionShape ==
    /\ SectionBody.kind = "sequence"
    /\ Len(SectionBody.refs) \in {2, 3}
    /\ CallsOf(SectionBody.refs[1]) = <<0, 0>>
    /\ Len(SectionBody.refs) = 3 => CallsOf(SectionBody.refs[3]) = <<0, 0>>

SectionCalls == CallsOf(SectionBody.refs[2])

AfterThinking ==
    IF config.thinking = <<>> THEN result.root.refs
    ELSE SubSeq(result.root.refs, 4, Len(result.root.refs))

ThinkingBlock ==
    IF config.thinking = <<>> THEN <<>> ELSE SubSeq(result.root.refs, 1, 3)

\* C9 (as stated): with Auto the root holds the free-text rule before the
\* tool-calls rule, and the tool-calls rule derives the empty string: a
\* response of free content alone, with no section prefix or suffix, is
\* derivable from the root.
C9_AutoOptionalRegion ==
    HasGrammar /\ CallChoice.type = "auto" =>
        /\ AfterThinking = <<Display(result.text_rule), Display(result.tools_rule)>>
        /\ Nullable(result, Display(result.tools_rule), Fuel(result))

\* C10: with Required or Function and mixed_content_tool_calls = false the
\* root is the thinking block (if any) followed by the tool-calls rule alone:
\* no free-text element in between, and the tool-calls rule does not derive
\* the empty string.
C10_NoTextBeforeTools ==
    /\ HasGrammar
    /\ CallChoice.type \in {"required", "function"}
    /\ ~result.call.mixed_content_tool_calls
    => /\ AfterThinking = <<Display(result.tools_rule)>>
       /\ Display(result.text_rule) \notin Range(AfterThinking)
       /\ config.thinking # <<>> =>
            /\ Len(result.root.refs) = 4
            /\ ThinkingBlock[2] = Display(result.text_rule)
       /\ ~Nullable(result, Display(result.tools_rule), Fuel(result))

\* C10 witness: such a grammar on an envelope with a thinking block.
C10_Witness ==
    /\ HasGrammar /\ config.thinking # <<>>
    /\ CallChoice.type = "function"
    /\ ~result.call.mixed_content_tool_calls
    /\ Len(result.root.refs) = 4

(***************************************************************************)
(* The JSON grammar of RFC 8259, against which the consumer is judged:     *)
(* each operator returns the position after what it recognises from the    *)
(* position i of the string s, or 0 when s does not continue that way.     *)
(***************************************************************************)
RECURSIVE ws_end(_, _)
ws_end(s, i) == IF i <= Len(s) /\ is_whitespace(s[i]) THEN ws_end(s, i + 1) ELSE i

\* Whitespace after something recognised up to i (0 stays 0).
After(s, i) == IF i = 0 THEN 0 ELSE ws_end(s, i)

At(s, i, cs) == i > 0 /\ i <= Len(s) /\ s[i] \in cs

\* The chars that a string must escape: U+0000 to U+001F.
MustEscape == {CharOf(n) : n \in 0..31}

\* i is the position after the opening quote.
RECURSIVE string_end(_, _)
string_end(s, i) ==
    IF i > Len(s) THEN 0
    ELSE IF s[i] = "\"" THEN i + 1
    ELSE IF s[i] = "\\"
    THEN IF At(s, i + 1, {"\"", "\\", "/", "b", "f", "n", "r", "t"})
         THEN string_end(s, i + 2)
         ELSE IF /\ At(s, i + 1, {"u"})
                 /\ i + 5 <= Len(s)
                 /\ \A k \in 2..5 : is_ascii_hexdigit(s[i + k])
         THEN string_end(s, i + 6)
         ELSE 0
    ELSE IF s[i] \in MustEscape THEN 0
    ELSE string_end(s, i + 1)

RECURSIVE digits_end(_, _)
digits_end(s, i) == IF At(s, i, Digits) THEN digits_end(s, i + 1) ELSE i

int_end(s, i) ==
    IF ~At(s, i, Digits) THEN 0 ELSE IF s[i] = "0" THEN i + 1 ELSE digits_end(s, i)

frac_end(s, i) ==
    IF At(s, i, {"."})
    THEN IF At(s, i + 1, Digits) THEN digits_end(s, i + 1) ELSE 0
    ELSE i

exp_digits_end(s, i) == IF At(s, i, Digits) THEN digits_end(s, i) ELSE 0

exp_end(s, i) ==
    IF At(s, i, {"e", "E"})
    THEN exp_digits_end(s, IF At(s, i + 1, {"+", "-"}) THEN i + 2 ELSE i + 1)
    ELSE i

number_end(s, i) ==
    exp_end(s, frac_end(s, int_end(s, IF At(s, i, {"-"}) THEN i + 1 ELSE i)))

literal_end(s, i, literal) ==
    IF /\ i + Len(literal) - 1 <= Len(s)
       /\ SubSeq(s, i, i + Len(literal) - 1) = literal
    THEN i + Len(literal)
    ELSE 0

RECURSIVE value_end(_, _)
RECURSIVE members_end(_, _)
RECURSIVE elements_end(_, _)

\* After a member: a comma and the next member, or the closing brace.
member_end(s, i) ==
    IF At(s, i, {","}) THEN members_end(s, ws_end(s, i + 1))
    ELSE IF At(s, i, {"}"}) THEN i + 1
    ELSE 0

\* After a key: the colon and the value.
key_end(s, i) ==
    IF At(s, i, {":"}) THEN member_end(s, After(s, value_end(s, ws_end(s, i + 1))))
    ELSE 0

members_end(s, i) ==
    IF At(s, i, {"\""}) THEN key_end(s, After(s, string_end(s, i + 1))) ELSE 0

\* After an element: a comma and the next element, or the closing bracket.
element_end(s, i) ==
    IF At(s, i, {","}) THEN elements_end(s, ws_end(s, i + 1))
    ELSE IF At(s, i, {"]"}) THEN i + 1
    ELSE 0

elements_end(s, i) == element_end(s, After(s, value_end(s, i)))

\* After the opening brace or bracket and the whitespace that follows it.
object_end(s, i) == IF At(s, i, {"}"}) THEN i + 1 ELSE members_end(s, i)

array_end(s, i) == IF At(s, i, {"]"}) THEN i + 1 ELSE elements_end(s, i)

value_end(s, i) ==
    IF i = 0 \/ i > Len(s) THEN 0
    ELSE CASE s[i] = "{" -> object_end(s, ws_end(s, i + 1))
           [] s[i] = "[" -> array_end(s, ws_end(s, i + 1))
           [] s[i] = "\"" -> string_end(s, i + 1)
           [] s[i] = "t" -> literal_end(s, i, chars("true"))
           [] s[i] = "f" -> literal_end(s, i, chars("false"))
           [] s[i] = "n" -> literal_end(s, i, chars("null"))
           [] OTHER -> number_end(s, i)

\* s is a JSON text: ws value ws.
IsJson(s) == After(s, value_end(s, ws_end(s, 1))) = Len(s) + 1

\* The results of the chars fed so far.
Results == {consumer.results[i] : i \in 1..Len(consumer.results)}

NotRejected == \A r \in Results : r.kind # "Rejected"

\* The input has been fed to its end.
FedAll == consumer.fed = Len(consumer.input)

\* C11 (as stated): feeding a prefix of a valid JSON document to a fresh
\* consumer never returns Rejected.
C11_Completeness ==
    IsJson(consumer.input) => NotRejected

\* Some char of the prefix fed was taken into the value.
SomeConsumed == \E r \in Results : r.kind = "Consumed"

\* The canonical rendering of the consumer.
Rendering == PartialJson_fmt(consumer.json)

\* C12 (as stated): after an accepted non-empty prefix the canonical rendering
\* is a well-formed JSON value, whatever the consumer is in the middle of.
C12_WellFormedRendering ==
    NotRejected /\ SomeConsumed => IsJson(Rendering)

\* {"a":1,"b":"hel"}
InFlightStringClosed ==
    <<"{", "\"", "a", "\"", ":", "1", ",", "\"", "b", "\"", ":", "\"", "h", "e", "l",
      "\"", "}">>

\* C13 (as stated): after feeding {"a":1, "b":"hel the rendering equals
\* {"a":1,"b":"hel"}: the in-flight string closed with a quote, the open
\* object closed.
C13_ProvisionalClosers ==
    consumer.input = InFlightString /\ FedAll => Rendering = InFlightStringClosed

\* C14 (as stated): a \uXXXX escape naming a scalar value appends that char
\* and returns the string to its opened state (no four digits stay pending),
\* so that "\u0041" ends as the closed string A with no Rejected.
C14_UnicodeEscape ==
    /\ /\ consumer.json.t = "String"
       /\ consumer.json.json_string.state.s = "HexDigits"
       /\ IsScalarValue(from_str_radix16(consumer.json.json_string.state.hex_digits))
       => Len(consumer.json.json_string.state.hex_digits) < 4
    /\ consumer.input = UnicodeEscape /\ FedAll =>
         /\ NotRejected
         /\ consumer.json = String(JsonString(<<"A">>, StringState("Closed")))

\* C15 (as stated): the surrogate pair \uD83D\uDE00 is taken without Rejected
\* and contributes the one char U+1F600 to the buffer.
C15_SurrogatePair ==
    consumer.input = SurrogatePair /\ FedAll =>
        /\ NotRejected
        /\ consumer.json = String(JsonString(<<CharOf(128512)>>, StringState("Closed")))

\* The chars offered to the consumer when every char is considered.
Chars ==
    {CodePoints[i][1] : i \in 1..Len(CodePoints)}
      \cup {CharOf(0), CharOf(8), CharOf(127), CharOf(128512)}

\* The JsonString that the next char goes to, if there is one: <<it>> or <<>>.
RECURSIVE ActiveString(_)
ActiveString(json) ==
    CASE json.t = "String" -> <<json.json_string>>
      [] json.t = "Object" /\ json.state.s = "Key" -> <<json.state.string>>
      [] json.t = "Object" /\ json.state.s = "Value" -> ActiveString(json.state.value)
      [] json.t = "Array" /\ json.state.s = "Element" -> ActiveString(json.state.element)
      [] OTHER -> <<>>

\* The chars that may follow a backslash, and the hex digits, as JSON has them.
EscapeChars == {"\"", "\\", "/", "b", "f", "n", "r", "t", "u"}

HexChars ==
    Digits \cup {"a", "b", "c", "d", "e", "f", "A", "B", "C", "D", "E", "F"}

\* c cannot continue the escape that the string is in the middle of.
Malformed(active, c) ==
    /\ active # <<>>
    /\ \/ active[1].state.s = "Escaped" /\ c \notin EscapeChars
       \/ /\ active[1].state.s = "HexDigits"
          /\ Len(active[1].state.hex_digits) < 4
          /\ c \notin HexChars

IsRejected(consumed, c) == consumed.result.kind = "Rejected" /\ consumed.result.c = c

\* C16: inside a string, a backslash followed by a char other than
\* " \ / b f n r t u returns Rejected for that char, and so does a non-hex
\* char among the four digits after \u.
C16_MalformedEscape ==
    \A c \in Chars :
        Malformed(ActiveString(consumer.json), c)
            => IsRejected(PartialJson_consume_char(consumer.json, c), c)

\* C16 witness: the q of "\q" has been fed and rejected, the backslash before
\* it having been taken.
C16_Witness ==
    /\ consumer.input = UnknownEscape /\ consumer.fed = 3
    /\ consumer.results[2].kind = "Omitted"
    /\ consumer.results[3] = Rejected("q", "a valid json escape character")

\* What a container does with the char c that ended its value: s is the
\* state it is left in, closer its terminator.
Offered(consumed, c, closer) ==
    IF is_whitespace(c)
    THEN consumed.result.kind = "Omitted" /\ consumed.self.state.s = "Comma"
    ELSE IF c = ","
    THEN consumed.result.kind = "Consumed" /\ consumed.self.state.s \in {"Key", "Element"}
    ELSE IF c = closer
    THEN consumed.result.kind = "Consumed" /\ consumed.self.state.s = "Closed"
    ELSE IsRejected(consumed, c) /\ consumed.self.state.s = "Comma"

\* One call of consume_char on json with c, consumed being what it left.
Total(json, c, consumed) ==
    /\ consumed.result.kind \in {"Consumed", "Omitted", "Unconsumed", "Rejected"}
    /\ consumed.result.kind = "Unconsumed" =>
         consumed.self = json /\ consumed.result.c = c
    /\ /\ json.t = "Object" /\ json.state.s = "Value"
       /\ PartialJson_consume_char(json.state.value, c).result.kind = "Unconsumed"
       => /\ consumed.self.entries
               = Append(json.entries, <<json.state.key, json.state.value>>)
          /\ Offered(consumed, c, "}")
    /\ /\ json.t = "Array" /\ json.state.s = "Element"
       /\ PartialJson_consume_char(json.state.element, c).result.kind = "Unconsumed"
       => /\ consumed.self.elements = Append(json.elements, json.state.element)
          /\ Offered(consumed, c, "]")

\* Total on json and on the values in progress inside it.
RECURSIVE TotalWithin(_, _)
TotalWithin(json, c) ==
    /\ Total(json, c, PartialJson_consume_char(json, c))
    /\ json.t = "Object" /\ json.state.s = "Value" => TotalWithin(json.state.value, c)
    /\ json.t = "Array" /\ json.state.s = "Element" => TotalWithin(json.state.element, c)

\* C17: in every reachable state and for every char, consume_char returns one
\* of Consumed, Omitted, Unconsumed, Rejected; a char on which the value
\* inside an object or array returns Unconsumed is handled by the container
\* in the same call, as whitespace, separator or terminator (or rejected),
\* the value being stored; and an Unconsumed returned leaves the state as it
\* was.
C17_Totality == \A c \in Chars : TotalWithin(consumer.json, c)

\* C17 witness: the comma after the 1 of {"a":1,"b":2} has been fed: the
\* number returned Unconsumed, the object stored the entry and took the comma.
C17_Witness ==
    /\ consumer.input = TwoEntries /\ consumer.fed = 7
    /\ consumer.results[7] = Consumed
    /\ consumer.json.entries = << <<(<<"a">>), Number(<<"1">>, "OpenedPositive")>> >>
    /\ consumer.json.state.s = "Key"

\* Acquiesce::parser has been called on the envelope.
ParserCalled == pc \in {"returned", "aborted"} /\ result.op = "parser"

\* The envelope has a tool_calls shape whose call is a NamedParameters one.
IsNamedParameters(self) ==
    HasToolCalls(self) /\ self.tool_calls[1].tool_call.type = "named_parameters"

\* C19 (as stated, its premise): for a NamedParameters envelope, the Kimi one
\* included, there is a parser that turns the call stream into ToolCall
\* deltas: the call of parser returns one.
C19_NamedParametersDeltas ==
    ParserCalled /\ IsNamedParameters(config) => result.kind = "Some"

\* C20 (as stated, its premise): the parser of an envelope with tool calls
\* does not fail as a whole: there is a parser to emit Rejected and to go on
\* with what follows, the call of parser does not abort.
C20_RejectionRecovery ==
    ParserCalled /\ HasToolCalls(config) => pc # "aborted"

\* C21 (as stated): parser returns a parser (Some) for every Components
\* envelope with a tool_calls shape, None for Harmony and for Components
\* without tool calls, and the call never aborts.
C21_ParserAvailability ==
    ParserCalled =>
        /\ pc # "aborted"
        /\ result.kind = (IF HasToolCalls(config) THEN "Some" ELSE "None")

\* The error that the validation of a tool calls for, "" when it calls for
\* none: a function tool whose parameters fail the meta-validation, a custom
\* tool whose Lark grammar or regex is invalid.
Offence(tool) ==
    IF tool.kind = "function"
    THEN IF tool.parameters.valid THEN "" ELSE "JsonSchema"
    ELSE IF tool.format = "lark" /\ ~tool.definition_valid THEN "Lark"
    ELSE IF tool.format = "regex" /\ ~tool.definition_valid THEN "Regex"
    ELSE ""

SomeOffence == \E i \in 1..Len(CallTools) : Offence(CallTools[i]) # ""

\* The first tool of the call, in list order, that does not validate.
FirstOffending ==
    CallTools[CHOOSE i \in 1..Len(CallTools) :
                /\ Offence(CallTools[i]) # ""
                /\ \A j \in 1..(i - 1) : Offence(CallTools[j]) = ""]

\* The call returned the validation error of the first offending tool, with
\* its name, and neither prompt nor grammar.
RejectsFirstOffending ==
    /\ result.kind = "err"
    /\ result.err = Offence(FirstOffending)
    /\ result.tool = FirstOffending.name
    /\ result.prompt = EmptyPrompt
    /\ ~result.has_grammar /\ ~result.built

RenderAgain(compiles, seed) ==
    render(config, result.call.messages, Tools(result.call.tools, compiles),
           result.call.tool_choice, result.call.parallel_tool_calls,
           result.call.mixed_content_tool_calls, result.call.grammar_syntax,
           compiles, seed)

SameOutput(one, other) ==
    /\ one.kind = other.kind /\ one.err = other.err
    /\ one.prompt = other.prompt
    /\ one.has_grammar = other.has_grammar
    /\ one.grammar = other.grammar

\* C23 (as stated): two render calls on the same envelope with the same
\* messages, tools, tool choice, flags and syntax return the same prompt and
\* the same grammar text, the order of the rule lines included.
C23_PureRender ==
    Rendered =>
        \A compiles \in CompileOutcomes(config, result.call.grammar_syntax) :
            \A seed \in HashSeeds :
                SameOutput(RenderAgain(compiles, 0), RenderAgain(compiles, seed))

(***************************************************************************)
(* infer_default, read letter by letter on the name as it was given.       *)
(***************************************************************************)
InferDefaultCalled == result.kind = "lib" /\ result.op = "infer_default"

\* The two cases of one ASCII letter.
SameLetter(c, letter) ==
    \/ c = letter
    \/ \E i \in 1..Len(LowerLetters) : LowerLetters[i] = letter /\ UpperLetters[i] = c

Spells(name, word) ==
    \E i \in 0..(Len(name) - Len(word)) :
        \A k \in 1..Len(word) : SameLetter(name[i + k], word[k])

IsAsciiName(name) == \A i \in 1..Len(name) : name[i] \notin {"U+212A", "U+0130", "U+00A0"}

InferredKimiK2 == result.out = [kind |-> "Ok", config |-> kimi_k2]

\* C24: infer_default returns the Kimi K2 envelope exactly when the trimmed,
\* lower-cased name holds both "kimi" and "k2" (for an ASCII name: when it
\* spells both, in any order and any letter case), and the error InferFailed
\* for every other name.
C24_InferDefault ==
    InferDefaultCalled =>
        /\ InferredKimiK2 \/ result.out = [kind |-> "Err", err |-> "InferFailed"]
        /\ InferredKimiK2 <=>
               /\ Spells(to_lowercase(trim(result.model_name)), <<"k", "i", "m", "i">>)
               /\ Spells(to_lowercase(trim(result.model_name)), <<"k", "2">>)
        /\ IsAsciiName(result.model_name) =>
               (InferredKimiK2 <=>
                    /\ Spells(result.model_name, <<"k", "i", "m", "i">>)
                    /\ Spells(result.model_name, <<"k", "2">>))

\* "k2" before "kimi", capitals, surrounded by white space.
C24_Witness ==
    /\ InferDefaultCalled
    /\ result.model_name = <<" ">> \o <<"K", "2">> \o <<"K", "I", "M", "I">>
    /\ result.out.kind = "Ok"
    /\ result.out.config = kimi_k2

(***************************************************************************)
(* The literal lists through serialize and deserialize.                    *)
(***************************************************************************)
OrderedSerialized == result.kind = "lib" /\ result.op = "ordered_literals"

DistinctSerialized == result.kind = "lib" /\ result.op = "distinct_literals"

\* C25: an ordered or distinct literal list of one element serializes as the
\* bare element, never as an array, and a list of any length, serialized
\* and deserialized, is the list it was.
C25_CollapsingRoundTrip ==
    /\ OrderedSerialized =>
           /\ result.out.ok
           /\ result.out.v = result.x
           /\ Len(result.x) = 1 =>
                  /\ result.json.j # "array"
                  /\ result.json = LiteralOrWild_serialize(result.x[1])
           /\ Len(result.x) # 1 =>
                  /\ result.json.j = "array"
                  /\ Len(result.json.items) = Len(result.x)
    /\ DistinctSerialized =>
           /\ result.out.ok
           /\ result.out.v = result.x
           /\ Cardinality(result.x) = 1 => result.json.j = "string" /\ result.x = {result.json.s}
           /\ Cardinality(result.x) # 1 =>
                  /\ result.json.j = "array"
                  /\ Len(result.json.items) = Cardinality(result.x)

\* A single wild element goes out as a bare object and comes back.
C25_Witness ==
    /\ OrderedSerialized
    /\ result.x = <<Wild("any", <<>>)>>
    /\ result.json = JObj(<<<<"wild", JStr("any")>>>>)
    /\ result.out = De(<<Wild("any", <<>>)>>)

(***************************************************************************)
(* Reading back the text that JsonFormatter wrote: the JSON value it       *)
(* denotes, the entries of an object in the order of the text.             *)
(***************************************************************************)
NotRead == [ok |-> FALSE, v |-> JNull, pos |-> 0]

WasRead(v, pos) == [ok |-> TRUE, v |-> v, pos |-> pos]

RECURSIVE SkipBlank(_, _)
SkipBlank(text, pos) ==
    IF pos <= Len(text) /\ text[pos] \in {" ", "\n"} THEN SkipBlank(text, pos + 1) ELSE pos

\* From the char after the opening quote to the closing one.
RECURSIVE ReadChars(_, _, _)
ReadChars(text, pos, acc) ==
    IF pos > Len(text) THEN NotRead
    ELSE IF text[pos] = "\"" THEN WasRead(acc, pos + 1)
    ELSE IF text[pos] = "\\"
    THEN IF pos < Len(text) /\ text[pos + 1] \in {"\"", "\\"}
         THEN ReadChars(text, pos + 2, Append(acc, text[pos + 1]))
         ELSE NotRead
    ELSE ReadChars(text, pos + 1, Append(acc, text[pos]))

RECURSIVE ReadDigits(_, _, _)
ReadDigits(text, pos, n) ==
    IF pos <= Len(text) /\ text[pos] \in Digits
    THEN ReadDigits(text, pos + 1, 10 * n + (CHOOSE d \in 0..9 : ToString(d) = text[pos]))
    ELSE WasRead(JNum(n), pos)

Word(text, pos, word) ==
    pos + Len(word) - 1 <= Len(text) /\ SubSeq(text, pos, pos + Len(word) - 1) = word

RECURSIVE ReadValue(_, _)

\* After an entry or an element: the closing bracket or a comma.
RECURSIVE ReadEntries(_, _, _)
ReadEntryValue(text, key, colon, acc) ==
    IF ~key.ok \/ colon > Len(text) \/ text[colon] # ":" THEN NotRead
    ELSE ReadEntries(text, ReadValue(text, SkipBlank(text, colon + 1)), <<acc, key.v>>)

ReadEntry(text, pos, acc) ==
    IF pos > Len(text) \/ text[pos] # "\"" THEN NotRead
    ELSE ReadEntryValue(text, ReadChars(text, pos + 1, <<>>),
                        SkipBlank(text, ReadChars(text, pos + 1, <<>>).pos), acc)

ReadEntriesNext(text, entries, pos) ==
    IF pos > Len(text) THEN NotRead
    ELSE IF text[pos] = "}" THEN WasRead(JObj(entries), pos + 1)
    ELSE IF text[pos] = "," THEN ReadEntry(text, SkipBlank(text, pos + 1), entries)
    ELSE NotRead

ReadEntries(text, value, pending) ==
    IF ~value.ok THEN NotRead
    ELSE ReadEntriesNext(text, Append(pending[1], <<pending[2], value.v>>),
                         SkipBlank(text, value.pos))

RECURSIVE ReadElements(_, _, _)
ReadElementsNext(text, items, pos) ==
    IF pos > Len(text) THEN NotRead
    ELSE IF text[pos] = "]" THEN WasRead(JArr(items), pos + 1)
    ELSE IF text[pos] = ","
    THEN ReadElements(text, ReadValue(text, SkipBlank(text, pos + 1)), items)
    ELSE NotRead

ReadElements(text, value, items) ==
    IF ~value.ok THEN NotRead
    ELSE ReadElementsNext(text, Append(items, value.v), SkipBlank(text, value.pos))

ReadValue(text, pos) ==
    IF pos > Len(text) THEN NotRead
    ELSE CASE text[pos] = "{" ->
                IF SkipBlank(text, pos + 1) <= Len(text) /\ text[SkipBlank(text, pos + 1)] = "}"
                THEN WasRead(JObj(<<>>), SkipBlank(text, pos + 1) + 1)
                ELSE ReadEntry(text, SkipBlank(text, pos + 1), <<>>)
           [] text[pos] = "[" ->
                IF SkipBlank(text, pos + 1) <= Len(text) /\ text[SkipBlank(text, pos + 1)] = "]"
                THEN WasRead(JArr(<<>>), SkipBlank(text, pos + 1) + 1)
                ELSE ReadElements(text, ReadValue(text, SkipBlank(text, pos + 1)), <<>>)
           [] text[pos] = "\"" ->
                IF ReadChars(text, pos + 1, <<>>).ok
                THEN WasRead(JStr(ReadChars(text, pos + 1, <<>>).v),
                             ReadChars(text, pos + 1, <<>>).pos)
                ELSE NotRead
           [] text[pos] \in Digits -> ReadDigits(text, pos, 0)
           [] Word(text, pos, <<"n", "u", "l", "l">>) -> WasRead(JNull, pos + 4)
           [] Word(text, pos, <<"t", "r", "u", "e">>) -> WasRead(JBool(TRUE), pos + 4)
           [] Word(text, pos, <<"f", "a", "l", "s", "e">>) -> WasRead(JBool(FALSE), pos + 5)
           [] OTHER -> NotRead

\* The whole text is one value.
ReadText(text) ==
    IF ReadValue(text, 1).ok /\ ReadValue(text, 1).pos = Len(text) + 1
    THEN ReadValue(text, 1)
    ELSE NotRead

\* The keys used, in ascending order of their bytes.
AscendingKeys == <<<<"B">>, <<"a">>, <<"a", "b">>, <<"b">>>>

KeyRank(key) == CHOOSE i \in 1..Len(AscendingKeys) : AscendingKeys[i] = key

\* Every object of the value, at every depth, has its keys ascending.
RECURSIVE KeysAscending(_)
KeysAscending(value) ==
    CASE value.j = "object" ->
           /\ \A i \in 1..(Len(value.fields) - 1) :
                  KeyRank(value.fields[i][1]) < KeyRank(value.fields[i + 1][1])
           /\ \A i \in 1..Len(value.fields) : KeysAscending(value.fields[i][2])
      [] value.j = "array" -> \A i \in 1..Len(value.items) : KeysAscending(value.items[i])
      [] OTHER -> TRUE

\* The same value but for the order of the entries of its objects.
RECURSIVE SameButKeyOrder(_, _)
SameButKeyOrder(one, other) ==
    IF one.j # other.j THEN FALSE
    ELSE CASE one.j = "object" ->
                /\ Len(one.fields) = Len(other.fields)
                /\ \A i \in 1..Len(one.fields) : \E k \in 1..Len(other.fields) :
                       /\ one.fields[i][1] = other.fields[k][1]
                       /\ SameButKeyOrder(one.fields[i][2], other.fields[k][2])
           [] one.j = "array" ->
                /\ Len(one.items) = Len(other.items)
                /\ \A i \in 1..Len(one.items) : SameButKeyOrder(one.items[i], other.items[i])
           [] OTHER -> one = other

Serialized == result.kind = "lib" /\ result.op = "serialize"

SerializedAs(value) ==
    IF result.self.sort_keys
    THEN KeysAscending(value) /\ SameButKeyOrder(value, result.value)
    ELSE value = result.value

\* C26: with sort_keys the text written has the keys of every object, at
\* every depth, in ascending order, the values and the order of the arrays
\* being those of the input; without sort_keys the entries are in the order
\* of the input.
C26_SortKeys ==
    Serialized => ReadText(result.out).ok /\ SerializedAs(ReadText(result.out).v)

\* An object out of order inside an object out of order, sorted at both
\* depths.
C26_Witness ==
    /\ Serialized
    /\ result.self = [JsonFormatter_compact EXCEPT !.sort_keys = TRUE]
    /\ result.value =
           JObj(<<<<<<"b">>, JNum(1)>>,
                  <<<<"a">>, JObj(<<<<<<"b">>, JNum(1)>>, <<<<"a">>, JNum(2)>>>>)>>>>)
    /\ ReadText(result.out).v =
           JObj(<<<<<<"a">>, JObj(<<<<<<"a">>, JNum(2)>>, <<<<"b">>, JNum(1)>>>>)>>,
                  <<<<"b">>, JNum(1)>>>>)

(***************************************************************************)
(* A primitive and what it depends on.                                     *)
(***************************************************************************)
PrimitiveRequested == result.kind = "lib" /\ result.op = "insert_primitive"

RECURSIVE DependsOn(_, _)
DependsOn(names, fuel) ==
    IF fuel = 0 THEN names
    ELSE DependsOn(names \cup UNION {Range(lookup_primitive_rule(n).deps) : n \in names},
                   fuel - 1)

\* The primitive and its dependencies, direct and transitive.
WithDependencies(name) == DependsOn({name}, Cardinality(PrimitiveNames))

HeldOnce(table, name) == Cardinality({k \in DOMAIN table : k[1] = name}) = 1

\* C27: a request for any GBNF primitive on any rule table returns, and the
\* table then holds the primitive and every primitive it depends on, each
\* exactly once.
C27_PrimitiveInjection ==
    PrimitiveRequested =>
        /\ result.out.st = "ok"
        /\ result.out.key = RuleKey(result.name, 0)
        /\ \A dep \in WithDependencies(result.name) : HeldOnce(result.out.rules, dep)

\* The requests that do return leave the primitive and its dependencies,
\* each once, and the rules of the table as they were.
C27_AcyclicInjection ==
    PrimitiveRequested /\ result.name \in AcyclicPrimitives =>
        /\ result.out.st = "ok"
        /\ \A dep \in WithDependencies(result.name) : HeldOnce(result.out.rules, dep)
        /\ \A k \in DOMAIN result.table : result.out.rules[k] = result.table[k]

\* value, object and array never return.
C27_CyclicInjection ==
    PrimitiveRequested /\ result.name \in {"value", "object", "array"} =>
        result.out.st = "overflow"

(***************************************************************************)
(* What a repetition operator admits, by the conventions of the grammar    *)
(* syntaxes.                                                               *)
(***************************************************************************)
Repeated == result.kind = "lib" /\ result.op = "repetition"

\* The counts tried: past the largest bound, so that an operator open above
\* differs from every closed one.
Counts == 0..(MaxCount + 2)

\* text makes item occur k times.
Admits(text, item, k) ==
    \/ text = "" /\ k = 0
    \/ text = item /\ k = 1
    \/ text = item \o "*"
    \/ text = item \o "+" /\ k >= 1
    \/ text = item \o "?" /\ k <= 1
    \/ \E n \in Counts :
         \/ text = item \o "{" \o ToString(n) \o "}" /\ k = n
         \/ text = item \o "{" \o ToString(n) \o ",}" /\ k >= n
         \/ \E m \in Counts :
              text = item \o "{" \o ToString(n) \o "," \o ToString(m) \o "}" /\ n <= k /\ k <= m

\* The operators over item.
Operators(item) ==
    {"", item, item \o "*", item \o "+", item \o "?"}
      \cup {item \o "{" \o ToString(n) \o "}" : n \in Counts}
      \cup {item \o "{" \o ToString(n) \o ",}" : n \in Counts}
      \cup {item \o "{" \o ToString(n) \o "," \o ToString(m) \o "}" : n \in Counts, m \in Counts}

IsOperator(text, item) ==
    text \in {item \o "*", item \o "+", item \o "?"}
      \cup {item \o "{" \o ToString(n) \o "}" : n \in Counts}
      \cup {item \o "{" \o ToString(n) \o ",}" : n \in Counts}
      \cup {item \o "{" \o ToString(n) \o "," \o ToString(m) \o "}" : n \in Counts, m \in Counts}

\* text makes item occur k times, sep between two occurrences: one item and
\* k - 1 times (sep item), the whole optional when wrapped in ( )?.
AdmitsSeparated(text, item, sep, k) ==
    \/ Admits(text, item, k) /\ k <= 1
    \/ \E rest \in Operators("(" \o sep \o " " \o item \o ")") :
         \/ text = item \o " " \o rest
              /\ k >= 1 /\ Admits(rest, "(" \o sep \o " " \o item \o ")", k - 1)
         \/ text = "(" \o item \o " " \o rest \o ")?"
              /\ (k = 0 \/ (k >= 1 /\ Admits(rest, "(" \o sep \o " " \o item \o ")", k - 1)))

Within(k) == result.min <= k /\ (result.max = -1 \/ k <= result.max)

RepetitionRule == result.rule.rules[RuleKey("tool_choices", 0)].text

\* C28: for bounds 0 <= min <= max, max possibly absent, the operator that
\* insert_repetition inserts and the texts of build_repetition_str and
\* build_repetition_sep admit k occurrences of the item exactly when
\* min <= k <= max; the operator is one of *, +, ?, {n}, {n,}, {n,m}, and
\* with a separator the repetition is wrapped in ( )? exactly when min = 0
\* and more than one occurrence is allowed.
C28_RepetitionRendering ==
    Repeated =>
        /\ \A k \in Counts :
             /\ Admits(RepetitionRule, result.item, k) <=> Within(k)
             /\ Admits(result.str, result.item, k) <=> Within(k)
             /\ AdmitsSeparated(result.with_sep, result.item, result.sep, k) <=> Within(k)
        /\ IsOperator(RepetitionRule, result.item)
        /\ result.max # 0 => IsOperator(result.str, result.item)
        /\ result.max \notin {0, 1} =>
             \E rest \in Operators("(" \o result.sep \o " " \o result.item \o ")") :
                result.with_sep = IF result.min = 0
                                  THEN "(" \o result.item \o " " \o rest \o ")?"
                                  ELSE result.item \o " " \o rest

\* Between 0 and 3 items with a separator: one item and up to two more,
\* the whole optional.
C28_Witness ==
    /\ Repeated
    /\ result.item = "item0"
    /\ result.min = 0
    /\ result.max = 3
    /\ RepetitionRule = "item0{0,3}"
    /\ result.str = "item0{0,3}"
    /\ result.with_sep = "(item0 (\",\" space item0){0,2})?"

(***************************************************************************)
(* The elements of the root body.                                          *)
(***************************************************************************)
\* sym heads a rule that is the sequence of these lexemes, each in the
\* notation of the syntax.
SpellsLexemes(res, sym, lexemes) ==
    \E b \in BodiesOf(res, sym) :
        /\ b.kind = "sequence"
        /\ Len(b.refs) = Len(lexemes)
        /\ \A i \in 1..Len(lexemes) :
               \E lb \in BodiesOf(res, b.refs[i]) :
                   lb.text = lexeme_text(result.call.grammar_syntax, lexemes[i])

\* allow_content, as ChatToolChoice::render returns it: true for Auto only.
AllowContent == CallChoice.type = "auto"

TextElement ==
    IF AllowContent \/ result.call.mixed_content_tool_calls
    THEN <<Display(result.text_rule)>>
    ELSE <<>>

\* C29: the root body is, in this order and joined by spaces, the thinking
\* prefix, the text rule and the thinking suffix when the envelope has
\* thinking, then the text rule when allow_content or
\* mixed_content_tool_calls holds, then the tool-calls rule, which is the
\* last element; there is no other element.
C29_RootAssembly ==
    HasGrammar =>
        /\ result.root.kind = "sequence"
        /\ result.root.text = Join(result.root.refs, " ")
        /\ AfterThinking = TextElement \o <<Display(result.tools_rule)>>
        /\ result.root.refs[Len(result.root.refs)] = Display(result.tools_rule)
        /\ config.thinking = <<>> => ThinkingBlock = <<>>
        /\ config.thinking # <<>> =>
               /\ Len(result.root.refs) >= 4
               /\ SpellsLexemes(result, ThinkingBlock[1], config.thinking[1].prefix)
               /\ ThinkingBlock[2] = Display(result.text_rule)
               /\ SpellsLexemes(result, ThinkingBlock[3], config.thinking[1].suffix)

\* Thinking and Auto: prefix, text, suffix, text, tool calls.
C29_Witness ==
    /\ HasGrammar
    /\ config = kimi_k2
    /\ CallChoice.type = "auto"
    /\ Len(result.root.refs) = 5
    /\ result.root.refs[2] = result.root.refs[4]
    /\ result.root.refs[1] # result.root.refs[3]
    /\ result.root.refs[5] = Display(result.tools_rule)

(***************************************************************************)
(* The lines of the resolved grammar.                                      *)
(***************************************************************************)
RootHead == IF result.call.grammar_syntax = "Lark" THEN "start: " ELSE "root ::= "

RuleSeparator == IF result.call.grammar_syntax = "Lark" THEN ": " ELSE " ::= "

RuleLine(k) == Display(k) \o RuleSeparator \o result.table[k].text

\* The lines after the first that are the rule of key k.
LinesOf(k) == {i \in 2..Len(result.grammar) : result.grammar[i] = RuleLine(k)}

\* C30: the first line of the resolved grammar is the root body behind
\* "start: " (Lark) or "root ::= " (GBNF); every other rule of the table
\* follows exactly once, one per line, as "key: body" or "key ::= body"; the
\* root is not among the rules listed and no rule is listed twice.
C30_ResolveLayout ==
    HasGrammar =>
        /\ result.grammar[1] = RootHead \o result.root.text
        /\ Len(result.grammar) = 1 + Cardinality(DOMAIN result.table)
        /\ \A k \in DOMAIN result.table : Cardinality(LinesOf(k)) = 1
        /\ \A i \in 2..Len(result.grammar) : \E k \in DOMAIN result.table : i \in LinesOf(k)
        /\ \A k \in DOMAIN result.table : k[1] # "root"
        /\ \A i, j \in 2..Len(result.grammar) :
               i # j => result.grammar[i] # result.grammar[j]

\* A GBNF grammar of the Kimi K2 envelope: the root line and several rules.
C30_Witness ==
    /\ HasGrammar
    /\ config = kimi_k2
    /\ result.call.grammar_syntax = "GBNF"
    /\ result.grammar[1] = "root ::= " \o result.root.text
    /\ Len(result.grammar) > 4
    /\ RuleKey("tool_choices", 0) \in DOMAIN result.table

(***************************************************************************)
(* A string literal of the grammar and the text it denotes.                *)
(***************************************************************************)
TextLexemeInserted == result.kind = "lib" /\ result.op = "insert_lexeme"

EmittedLiteral == result.out.rules[result.out.key].text

\* Inside a literal a quote and a backslash stand behind a backslash, any
\* other char of these texts stands for itself.
EscapedChar(c) == IF c \in {"\"", "\\"} THEN <<"\\", c>> ELSE <<c>>

\* The literal that is delimited by two quotes and whose content is text.
LiteralOf(text) ==
    "\"" \o Join(Flatten([i \in 1..Len(text) |-> EscapedChar(text[i])]), "") \o "\""

HasSpecialChar(text) == \E i \in 1..Len(text) : text[i] \in {"\"", "\\"}

\* C31: for every text, also one that holds a double quote, the Lark rule
\* of a text lexeme is one well-delimited string literal whose content is
\* the text.
C31_QuotedLiteral ==
    TextLexemeInserted /\ result.syn = "Lark" =>
        /\ result.out.st = "ok"
        /\ EmittedLiteral = LiteralOf(result.text)

\* What holds: a text without quote and backslash is emitted between two
\* quotes as it is, in both syntaxes; so is every other text, unescaped.
C31_VerbatimLiteral ==
    TextLexemeInserted =>
        /\ result.out.st = "ok"
        /\ EmittedLiteral = "\"" \o Join(result.text, "") \o "\""
        /\ ~HasSpecialChar(result.text) => EmittedLiteral = LiteralOf(result.text)

(***************************************************************************)
(* The schema of the JsonObject and JsonArray tool-call rules.             *)
(***************************************************************************)
CallDefinition == config.tool_calls[1].tool_call

\* The tools ToolCall::render is given: the tool a Function choice names,
\* all the validated tools otherwise.
RenderedTools ==
    IF CallChoice.type = "function"
    THEN FindTool(ValidateTools(CallTools).tools, CallChoice.name)
    ELSE ValidateTools(CallTools).tools

WrapChoices(schema_choices) ==
    IF CallDefinition.type = "json_object" THEN object_schema(schema_choices)
    ELSE array_schema(schema_choices)

\* The schema whose i-th alternative enumerates the name over names[i].
SchemaEnumerating(names) ==
    WrapChoices([i \in 1..Len(RenderedTools) |->
        naive_json_schema(RenderedTools[i], names[i], CallDefinition.argument_key, TRUE)])

JsonToolCallRendered ==
    /\ HasGrammar
    /\ CallDefinition.type \in {"json_object", "json_array"}
    /\ result.call.grammar_syntax = "Lark"
    /\ result.call_rule \in DOMAIN result.table

SchemaEmitted == result.table[result.call_rule].text

\* C32: for the JsonObject and JsonArray definitions the emitted schema has
\* one anyOf alternative per tool, the alternative of a tool enumerating the
\* name field over that tool's own name.
C32_NameEnumerated ==
    JsonToolCallRendered =>
        SchemaEmitted
          = lark_json_schema(
                SchemaEnumerating([i \in 1..Len(RenderedTools) |-> RenderedTools[i].name]).json)

\* What the alternatives hold: one per tool in the order of the tools, each
\* enumerating the name field over the name key of the definition.
C32_NameKeyEnumerated ==
    JsonToolCallRendered =>
        SchemaEmitted
          = lark_json_schema(
                SchemaEnumerating([i \in 1..Len(RenderedTools) |-> CallDefinition.name_key]).json)

\* Two tools of distinct names under JsonObject: two alternatives.
C32_Witness ==
    /\ JsonToolCallRendered
    /\ CallDefinition.type = "json_object"
    /\ Len(RenderedTools) = 2
    /\ RenderedTools[1].name # RenderedTools[2].name

\* The JSON number grammar: an optional minus; 0, or a digit of 1..9 and
\* digits; optionally a dot and one digit or more; optionally e or E, an
\* optional sign and one digit or more.  The parts are the chars a..b of s.
DigitRun(s, a, b) == a <= b /\ \A i \in a..b : s[i] \in Digits

IntegerPart(s, a, b) ==
    /\ a <= b
    /\ \/ a = b /\ s[a] = "0"
       \/ s[a] \in Digits \ {"0"} /\ \A i \in (a + 1)..b : s[i] \in Digits

FractionPart(s, a, b) ==
    \/ a = b + 1
    \/ a <= b /\ s[a] = "." /\ DigitRun(s, a + 1, b)

ExponentPart(s, a, b) ==
    \/ a = b + 1
    \/ /\ a <= b
       /\ s[a] \in {"e", "E"}
       /\ \/ DigitRun(s, a + 1, b)
          \/ a + 1 <= b /\ s[a + 1] \in {"+", "-"} /\ DigitRun(s, a + 2, b)

JsonNumber(s) ==
    \E i \in 0..1 : \E j, k \in 0..Len(s) :
        /\ i = 1 => Len(s) >= 1 /\ s[1] = "-"
        /\ i < j /\ j <= k
        /\ IntegerPart(s, i + 1, j)
        /\ FractionPart(s, j + 1, k)
        /\ ExponentPart(s, k + 1, Len(s))

\* What may follow a prefix of a number to complete it.
NumberTails == {<<>>} \cup {<<c>> : c \in {"0", "1"}} \cup {<<c, d>> : c, d \in {"0", "1"}}

JsonNumberPrefix(s) == \E tail \in NumberTails : JsonNumber(s \o tail)

\* The value the next char goes to: the value in flight in the innermost
\* object or array.
RECURSIVE InFlight(_)
InFlight(json) ==
    IF json.t = "Object" /\ json.state.s = "Value" THEN InFlight(json.state.value)
    ELSE IF json.t = "Array" /\ json.state.s = "Element" THEN InFlight(json.state.element)
    ELSE json

\* A char on the number states: taken iff the buffer with it is a prefix of
\* a number; handed back only behind a complete number, nothing changed.
NumberStep(json, c, consumed) ==
    /\ JsonNumberPrefix(json.buffer)
    /\ consumed.result.kind \in {"Consumed", "Unconsumed", "Rejected"}
    /\ consumed.result.kind = "Consumed" <=> JsonNumberPrefix(Append(json.buffer, c))
    /\ consumed.result.kind = "Consumed" =>
           consumed.self.t = "Number" /\ consumed.self.buffer = Append(json.buffer, c)
    /\ consumed.result.kind = "Unconsumed" =>
           JsonNumber(json.buffer) /\ consumed.self = json /\ consumed.result.c = c
    /\ ~JsonNumber(json.buffer) /\ ~JsonNumberPrefix(Append(json.buffer, c)) =>
           consumed.result.kind = "Rejected"
    /\ json.buffer \in {<<"0">>, <<"-", "0">>} /\ c \in Digits =>
           consumed.result.kind = "Rejected"

\* A char where a value starts: it opens a number iff it is the prefix of one.
NumberOpening(c, consumed) ==
    /\ consumed.self.t = "Number" <=> JsonNumberPrefix(<<c>>)
    /\ consumed.self.t = "Number" =>
           consumed.result.kind = "Consumed" /\ consumed.self.buffer = <<c>>

\* C33: the number states take a char sequence, every char Consumed, iff it
\* is a prefix of a string of the JSON number grammar; a digit after a
\* leading 0 is Rejected; Unconsumed is returned only when the buffer holds a
\* complete number and leaves the buffer as it was.
C33_NumberStates ==
    \A c \in Chars :
        /\ InFlight(consumer.json).t = "Number" =>
               NumberStep(InFlight(consumer.json), c,
                          PartialJson_consume_char(InFlight(consumer.json), c))
        /\ InFlight(consumer.json).t = "Start" =>
               NumberOpening(c, PartialJson_consume_char(InFlight(consumer.json), c))

\* 01: the digit behind the leading zero was rejected and the buffer kept.
C33_Witness ==
    /\ consumer.input = <<"0", "1">>
    /\ FedAll
    /\ consumer.results[2].kind = "Rejected"
    /\ consumer.json = Number(<<"0">>, "OpenedZero")

\* -0.5E-2 taken whole, through every part of the grammar.
C33_WitnessExponent ==
    /\ consumer.input = Exponent
    /\ FedAll
    /\ InFlight(consumer.json) = Number(Exponent, "Exponent")

(***************************************************************************)
(* The literal consumer on a stream.                                       *)
(***************************************************************************)
LiteralStreamFed == result.kind = "lib" /\ result.op = "partial_literal_consumer"

\* The first char of the literals of the model.
FirstChar(s) ==
    CASE s = "<think>" -> "<"
      [] s = "any" -> "a"
      [] s = "numeric" -> "n"

\* The element needs no char: a wildcard run bounded by zero.
Complete(element) == element.t = "Wild" /\ element.bounded = <<0>>

\* C34: the literal consumer never aborts; a literal takes exactly its own
\* chars, so the first char of a stream is Consumed when it is the first
\* char of a leading literal and Rejected when it is not; and Unconsumed(c)
\* is returned only once every element of the list is complete.
C34_LiteralConsumer ==
    LiteralStreamFed =>
        /\ \A i \in 1..Len(result.out) : result.out[i] # Panicked
        /\ Len(result.out) = Len(result.stream)
        /\ result.literals # <<>> /\ result.literals[1].t = "Literal" =>
               result.out[1].kind
                 = IF result.stream[1] = FirstChar(result.literals[1].s)
                   THEN "Consumed" ELSE "Rejected"
        /\ result.out[1].kind = "Unconsumed" =>
               \A i \in 1..Len(result.literals) : Complete(result.literals[i])

\* What the closure does: with no element it hands every char back, and
\* with one it panics on the first char.
C34_Unimplemented ==
    LiteralStreamFed =>
        IF result.literals = <<>>
        THEN result.out = [i \in 1..Len(result.stream) |-> Unconsumed(result.stream[i])]
        ELSE result.out = <<Panicked>>

(***************************************************************************)
(* Feeding a rendering to a consumer.                                      *)
(***************************************************************************)
RECURSIVE Refeed(_, _, _)

RefeedNext(consumed, rest, rejected) ==
    Refeed(consumed.self, rest, rejected \/ consumed.result.kind = "Rejected")

\* The consumer after the chars of s, and whether one of them was rejected.
Refeed(json, s, rejected) ==
    IF s = <<>> THEN [json |-> json, rejected |-> rejected]
    ELSE RefeedNext(PartialJson_consume_char(json, Head(s)), Tail(s), rejected)

\* The value is closed: a closed object, array or string, a whole literal,
\* a complete number.
ClosedValue(json) ==
    CASE json.t \in {"Object", "Array"} -> json.state.s = "Closed"
      [] json.t = "String" -> json.json_string.state.s = "Closed"
      [] json.t = "Literal" -> json.buffer = chars(json.literal)
      [] json.t = "Number" -> JsonNumber(json.buffer)
      [] OTHER -> FALSE

RoundTrips(refed, rendering) ==
    /\ ~refed.rejected
    /\ PartialJson_fmt(refed.json) = rendering

\* C35: the canonical rendering escapes what it stores, keys included: for
\* every closed value built from an accepted input, feeding its rendering to
\* a fresh consumer returns no Rejected and gives the same rendering again.
C35_RenderRoundTrip ==
    \A fresh \in {Start} :
        ClosedValue(consumer.json) /\ NotRejected =>
            RoundTrips(Refeed(fresh, Rendering, FALSE), Rendering)

\* The buffer holds no control char.
NoControl(buffer) == \A i \in 1..Len(buffer) : ~is_control(buffer[i])

\* What holds: a closed string without control chars renders with its
\* quotes, backslashes and solidi escaped and is read back as itself.
C35_PlainStringRoundTrip ==
    \A fresh \in {Start} :
        /\ consumer.json.t = "String"
        /\ ClosedValue(consumer.json)
        /\ NoControl(consumer.json.json_string.buffer)
        => /\ RoundTrips(Refeed(fresh, Rendering, FALSE), Rendering)
           /\ Refeed(fresh, Rendering, FALSE).json = consumer.json

(***************************************************************************)
(* What a rejected char leaves of the consumer.                            *)
(***************************************************************************)
KeepsState(json, consumed) ==
    consumed.result.kind = "Rejected" => consumed.self = json

\* C36: whenever consume_char returns Rejected the whole state of the
\* consumer (variant, substate, buffers, pending hex digits) is the state
\* before the call.
C36_RejectionKeepsState ==
    \A c \in Chars : KeepsState(consumer.json, PartialJson_consume_char(consumer.json, c))

\* The char goes to an array that has just been opened.
ArrayJustOpened(json) ==
    InFlight(json).t = "Array" /\ InFlight(json).state.s = "Opened"

\* The char is the fourth hex digit of an escape.
FourthHexDigit(json, c) ==
    /\ ActiveString(json) # <<>>
    /\ ActiveString(json)[1].state.s = "HexDigits"
    /\ Len(ActiveString(json)[1].state.hex_digits) = 3
    /\ is_ascii_hexdigit(c)

\* The value or key in flight is complete and hands the char back to the
\* object or array that holds it.
HandedBack(json, c) ==
    \/ PartialJson_consume_char(InFlight(json), c).result.kind = "Unconsumed"
    \/ ActiveString(json) # <<>> /\ ActiveString(json)[1].state.s = "Closed"

\* What holds: a rejected char leaves the state as it was except as the
\* first char of an array, which leaves an element in flight; as the fourth
\* hex digit of an escape that names no scalar value, which stays among the
\* pending digits; and behind a complete value or key, which is stored
\* before the object or array rejects the char.
C36_RejectionElsewhere ==
    \A c \in Chars :
        \/ ArrayJustOpened(consumer.json)
        \/ FourthHexDigit(consumer.json, c)
        \/ HandedBack(consumer.json, c)
        \/ KeepsState(consumer.json, PartialJson_consume_char(consumer.json, c))

\* [ then a rejected char: ] is rejected where it was acceptable.
C36_ArrayNoLongerCloses ==
    \A c \in {"]"} :
        /\ consumer.input = <<"[", "q">>
        /\ FedAll
        => /\ consumer.results[2].kind = "Rejected"
           /\ PartialJson_consume_char(consumer.json, c).result.kind = "Rejected"
           /\ PartialJson_consume_char(Array(<<>>, State("Opened")), c).result.kind = "Consumed"

(***************************************************************************)
(* The rendering across a call.                                            *)
(***************************************************************************)
IsPrefix(s, t) == Len(s) <= Len(t) /\ SubSeq(t, 1, Len(s)) = s

Monotone(before, consumed) ==
    /\ IsPrefix(PartialJson_fmt(before), PartialJson_fmt(consumed.self))
    /\ consumed.result.kind \in {"Omitted", "Unconsumed", "Rejected"} =>
           PartialJson_fmt(consumed.self) = PartialJson_fmt(before)

\* C37: the canonical rendering after a call has the rendering before the
\* call as a prefix, and is the same when the call returned Omitted,
\* Unconsumed or Rejected.
C37_PrefixMonotone ==
    \A c \in Chars : Monotone(consumer.json, PartialJson_consume_char(consumer.json, c))

\* Some key of the value, stored or in flight, holds a char that the
\* rendering of a string escapes.
RECURSIVE HasEscapedKey(_)

NeedsEscape(buffer) == \E i \in 1..Len(buffer) : JsonString_fmt_char(buffer[i]) # <<buffer[i]>>

HasEscapedKey(json) ==
    CASE json.t = "Object" ->
           \/ \E i \in 1..Len(json.entries) :
                  NeedsEscape(json.entries[i][1]) \/ HasEscapedKey(json.entries[i][2])
           \/ json.state.s = "Key" /\ NeedsEscape(json.state.string.buffer)
           \/ json.state.s = "Colon" /\ NeedsEscape(json.state.key)
           \/ json.state.s = "Value" /\
                  (NeedsEscape(json.state.key) \/ HasEscapedKey(json.state.value))
      [] json.t = "Array" ->
           \/ \E i \in 1..Len(json.elements) : HasEscapedKey(json.elements[i])
           \/ json.state.s = "Element" /\ HasEscapedKey(json.state.element)
      [] OTHER -> FALSE

\* What holds: the rendering grows by a suffix as long as no key holds a
\* char that needs escaping.
C37_MonotoneWithPlainKeys ==
    \A c \in Chars :
        \/ HasEscapedKey(consumer.json)
        \/ Monotone(consumer.json, PartialJson_consume_char(consumer.json, c))

(***************************************************************************)
(* Chars that complete what the consumer holds to a JSON text, and the     *)
(* content of a string as JSON reads it.                                   *)
(***************************************************************************)
StringCompletion(json_string) ==
    CASE json_string.state.s = "Start" -> <<"\"", "\"">>
      [] json_string.state.s = "Opened" -> <<"\"">>
      [] json_string.state.s = "Escaped" -> <<"n", "\"">>
      [] json_string.state.s = "HexDigits" ->
           [i \in 1..(IF Len(json_string.state.hex_digits) < 4
                      THEN 4 - Len(json_string.state.hex_digits) ELSE 0) |-> "0"]
             \o <<"\"">>
      [] json_string.state.s = "Closed" -> <<>>

RECURSIVE Completion(_)
Completion(json) ==
    CASE json.t = "Start" -> <<"0">>
      [] json.t = "Object" ->
           (CASE json.state.s = "Key" -> StringCompletion(json.state.string) \o <<":", "0">>
              [] json.state.s = "Colon" -> <<":", "0">>
              [] json.state.s = "Value" -> Completion(json.state.value)
              [] json.state.s = "Closed" -> <<>>
              [] OTHER -> <<>>)
             \o (IF json.state.s = "Closed" THEN <<>> ELSE <<"}">>)
      [] json.t = "Array" ->
           (IF json.state.s = "Element" THEN Completion(json.state.element) ELSE <<>>)
             \o (IF json.state.s = "Closed" THEN <<>> ELSE <<"]">>)
      [] json.t = "String" -> StringCompletion(json.json_string)
      [] json.t = "Number" ->
           IF json.state \in {"OpenedNegative", "FirstDecimal", "ExponentSign", "FirstExponent"}
           THEN <<"0">> ELSE <<>>
      [] json.t = "Literal" ->
           SubSeq(chars(json.literal), Len(json.buffer) + 1, Len(chars(json.literal)))

\* The chars that the string opened before position i holds up to its
\* closing quote or the end of s, an escape cut short by the end left out.
RECURSIVE StringContent(_, _)
StringContent(s, i) ==
    IF i > Len(s) \/ s[i] = "\"" THEN <<>>
    ELSE IF s[i] # "\\" THEN <<s[i]>> \o StringContent(s, i + 1)
    ELSE IF i + 1 > Len(s) THEN <<>>
    ELSE IF s[i + 1] # "u" THEN <<escape_char(s[i + 1])>> \o StringContent(s, i + 2)
    ELSE IF i + 5 > Len(s) THEN <<>>
    ELSE <<CharOf(from_str_radix16(SubSeq(s, i + 2, i + 5)))>> \o StringContent(s, i + 6)

\* The chars fed so far.
FedChars == SubSeq(consumer.input, 1, consumer.fed)

\* Every char fed so far was answered Consumed or Omitted.
Taken == \A r \in Results : r.kind \in {"Consumed", "Omitted"}

\* The chars taken so far are a prefix of a JSON text.
C38_TakenIsPrefix ==
    \A json \in {consumer.json} :
        Taken => IsJson(FedChars \o Completion(json))

\* C38: every char sequence a fresh consumer takes without Rejected or
\* Unconsumed is a prefix of a valid JSON document, and no char taken into a
\* string is dropped: the buffered value of a string is the content of the
\* chars taken.
C38_Soundness ==
    \A json \in {consumer.json} :
        Taken =>
            /\ IsJson(FedChars \o Completion(json))
            /\ json.t = "String" =>
                   json.json_string.buffer = StringContent(FedChars, ws_end(FedChars, 1) + 1)

(***************************************************************************)
(* The printed form of the keys of one compilation.                        *)
(***************************************************************************)
RulesInserted == result.kind = "lib" /\ result.op = "insert_rule"

DisplayInjective(r) ==
    \A k1, k2 \in DOMAIN r : Display(k1) = Display(k2) => k1 = k2

\* C39: the printed form of a rule key, its name followed by the decimal
\* disambiguator, is injective over the keys of one compilation, also when
\* logical names end in digits.
C39_DisplayInjective ==
    RulesInserted => DisplayInjective(result.out.rules)

\* What holds: the keys of one logical name print differently, and so do
\* the keys of two names neither of which is the other followed by digits.
C39_InjectiveWithinName ==
    RulesInserted =>
        /\ \A k1, k2 \in DOMAIN result.out.rules :
               k1[1] = k2[1] /\ Display(k1) = Display(k2) => k1 = k2
        /\ {result.key, result.other} # {"a", "a1"} => DisplayInjective(result.out.rules)
        /\ Cardinality(DOMAIN result.out.rules) = result.n + 1

(***************************************************************************)
(* The prompt of a successful render call.                                 *)
(***************************************************************************)
RenderSucceeded == Rendered /\ config.type = "components" /\ result.kind = "ok"

\* The names of the tools the call was given, in their order.
SuppliedToolNames == [i \in 1..Len(CallTools) |-> CallTools[i].name]

\* C40: whenever render succeeds on a Components envelope the prompt is the
\* template rendered with the supplied messages and all the supplied tools,
\* on the short-circuit paths as well.
C40_PromptWithTools ==
    RenderSucceeded =>
        result.prompt = Prompt(result.call.messages, SuppliedToolNames)

\* What holds: the prompt is rendered with the supplied messages; with all
\* the supplied tools when the envelope has a tool_calls shape and the tool
\* choice is not None, and with no tool otherwise.
C40_PromptOfPath ==
    RenderSucceeded =>
        result.prompt
          = Prompt(result.call.messages,
                   IF ShortCircuitCase THEN <<>> ELSE SuppliedToolNames)

====
